---- MODULE Spec2Model ----
(***************************************************************************)
(* A model of the tinygo-msgpack codec: the DataReader cursor, the Sizer,  *)
(* the Encoder and the Decoder.                                            *)
(*                                                                         *)
(* Representation.  A byte is an integer in 0..255.  The buffer is a       *)
(* sequence of bytes (Go index i is TLA+ index i+1).  A 64-bit integer is  *)
(* its 8-byte big-endian two's-complement word, a uint32 is the pair       *)
(* <<high 16 bits, low 16 bits>>, so that every width of the program is    *)
(* kept and the wrap-around of uint32 arithmetic is modelled.  A Go error  *)
(* is a tuple whose first element names it; NoErr is the nil error.  A run *)
(* time panic of the Go program is the error value Panic.                  *)
(***************************************************************************)
EXTENDS Integers, Sequences, FiniteSets, TLC

VARIABLES
    buffer,      \* DataReader.buffer of the cursor under study
    byteOffset,  \* DataReader.byteOffset
    err,         \* DataReader.err, the latched error
    length,      \* Sizer.length; when decoding, the bytes of the value first in buffer
    pc,          \* position of the driving program
    calls,       \* the Writer calls Codec.Encode issues, in order
    last         \* the last operation: its call, the state it started from, its result

vars == <<buffer, byteOffset, err, length, pc, calls, last>>

-----------------------------------------------------------------------------
(* Bounds of the model *)

\* number of Writer calls one Codec.Encode issues
MaxCalls == 2

\* longest string or byte array payload written
MaxPayload == 256

\* number of Decoder operations applied to one buffer
MaxOps == 2

-----------------------------------------------------------------------------
(* Format tags *)

FormatFixMap == 128
FormatFixArray == 144
FormatFixString == 160
FormatNil == 192
FormatFalse == 194
FormatTrue == 195
FormatBin8 == 196
FormatBin16 == 197
FormatBin32 == 198
FormatExt8 == 199
FormatExt16 == 200
FormatExt32 == 201
FormatFloat32 == 202
FormatFloat64 == 203
FormatUint8 == 204
FormatUint16 == 205
FormatUint32 == 206
FormatUint64 == 207
FormatInt8 == 208
FormatInt16 == 209
FormatInt32 == 210
FormatInt64 == 211
FormatFixExt1 == 212
FormatFixExt2 == 213
FormatFixExt4 == 214
FormatFixExt8 == 215
FormatFixExt16 == 216
FormatString8 == 217
FormatString16 == 218
FormatString32 == 219
FormatArray16 == 220
FormatArray32 == 221
FormatMap16 == 222
FormatMap32 == 223
FormatNegativeFixInt == 224
FormatFourLeastSigBitsInByte == 15

-----------------------------------------------------------------------------
(* Machine arithmetic *)

Byte == 0..255

\* bit i of the byte a
Bit(a, i) == (a \div (2 ^ i)) % 2

\* a & b and a | b on bytes
BitAnd(a, b) ==
    Bit(a, 0) * Bit(b, 0) + 2 * Bit(a, 1) * Bit(b, 1)
    + 4 * Bit(a, 2) * Bit(b, 2) + 8 * Bit(a, 3) * Bit(b, 3)
    + 16 * Bit(a, 4) * Bit(b, 4) + 32 * Bit(a, 5) * Bit(b, 5)
    + 64 * Bit(a, 6) * Bit(b, 6) + 128 * Bit(a, 7) * Bit(b, 7)

BitOr(a, b) == a + b - BitAnd(a, b)

\* F of the value of v, computed once
Apply(F(_), v) == CHOOSE y \in {F(x) : x \in {v}} : TRUE

\* F of the values of v and w, each computed once
Apply2(F(_, _), v, w) == CHOOSE y \in {F(x, z) : x \in {v}, z \in {w}} : TRUE

\* n copies of byte b
Rep(n, b) == [i \in 1..n |-> b]

\* uint32 as <<high half, low half>>
U32(n) == <<n \div 65536, n % 65536>>

\* uint32(v) of the big-endian bytes of a uint8, uint16 or uint32
U32OfBytes(bs) ==
    IF Len(bs) = 1 THEN <<0, bs[1]>>
    ELSE IF Len(bs) = 2 THEN <<0, bs[1] * 256 + bs[2]>>
    ELSE <<bs[1] * 256 + bs[2], bs[3] * 256 + bs[4]>>

\* the big-endian bytes of a uint32
BytesOfU32(x) == <<x[1] \div 256, x[1] % 256, x[2] \div 256, x[2] % 256>>

\* a + b on uint32, wrapping at 2^32
Add32(a, b) ==
    LET lo == a[2] + b[2]
        hi == a[1] + b[1] + (lo \div 65536)
    IN  <<hi % 65536, lo % 65536>>

\* 2 * a on uint32, wrapping at 2^32
Mul2_32(a) == Add32(a, a)

\* a - 1 on uint32, for a > 0
Dec32(a) == IF a[2] > 0 THEN <<a[1], a[2] - 1>> ELSE <<a[1] - 1, 65535>>

Gt32(a, b) == a[1] > b[1] \/ (a[1] = b[1] /\ a[2] > b[2])

Le32(a, b) == ~Gt32(a, b)

Lt32(a, b) == Gt32(b, a)

\* a uint32 known to be below 2^31, as an integer
Nat32(a) == a[1] * 65536 + a[2]

\* int64(n) for an integer n of the model (|n| < 2^31): the 8-byte word
I64(n) ==
    LET ext == IF n < 0 THEN 255 ELSE 0
    IN  <<ext, ext, ext, ext,
          (n \div 16777216) % 256, (n \div 65536) % 256, (n \div 256) % 256, n % 256>>

\* unsigned a < b on big-endian words of equal length
ULt(a, b) ==
    \E x \in {a}, y \in {b} :
        \E i \in 1..Len(x) : x[i] < y[i] /\ \A j \in 1..(i - 1) : x[j] = y[j]

ULe(a, b) == a = b \/ ULt(a, b)

\* the word with its sign bit flipped: signed order becomes unsigned order
FlipSign(a) == [a EXCEPT ![1] = (a[1] + 128) % 256]

\* signed a < b on two's-complement words of equal length
SLt(a, b) == ULt(FlipSign(a), FlipSign(b))

SLe(a, b) == a = b \/ SLt(a, b)

\* sign extension of a big-endian two's-complement word to 8 bytes
SignExt(bs) == Rep(8 - Len(bs), IF bs[1] >= 128 THEN 255 ELSE 0) \o bs

\* sec >> 34 of a uint64 word
shiftRight34(b) == I64(b[1] * 4194304 + b[2] * 16384 + b[3] * 64 + b[4] \div 4)

\* x << 34 of a uint64 word
shiftLeft34(b) ==
    <<((b[5] * 4) % 256) + (b[6] \div 64), ((b[6] * 4) % 256) + (b[7] \div 64),
      ((b[7] * 4) % 256) + (b[8] \div 64), (b[8] * 4) % 256, 0, 0, 0, 0>>

\* a | b of two uint64 words
Or64(a, b) == [i \in 1..8 |-> BitOr(a[i], b[i])]

\* zero extension of a big-endian word to 8 bytes
ZeroExt(bs) == Rep(8 - Len(bs), 0) \o bs

\* the low n bytes of a word: the truncating conversions uintN(v), intN(v)
Low(w, n) == SubSeq(w, Len(w) - n + 1, Len(w))

\* limits of package math, as int64 / uint64 words
MaxInt8W == I64(127)
MinInt8W == I64(-128)
MaxInt16W == I64(32767)
MinInt16W == I64(-32768)
MaxInt32W == I64(2147483647)
MinInt32W == <<255, 255, 255, 255, 128, 0, 0, 0>>
MaxUint8W == I64(255)
MaxUint16W == I64(65535)
MaxUint32W == <<0, 0, 0, 0, 255, 255, 255, 255>>
MaxInt64W == <<127, 255, 255, 255, 255, 255, 255, 255>>
MinInt64W == <<128, 0, 0, 0, 0, 0, 0, 0>>
MaxUint64W == <<255, 255, 255, 255, 255, 255, 255, 255>>

-----------------------------------------------------------------------------
(* Errors *)

NoErr == <<"nil">>
ErrRange == <<"range error">>
Panic == <<"panic">>
ReadError(message) == <<"ReadError", message>>

-----------------------------------------------------------------------------
(* DataReader: the cursor.  A cursor value is the record                   *)
(* [buffer, byteOffset, err]; an operation returns [r, v, e]: the cursor   *)
(* after it, the value and the error it returns.                           *)

NewDataReader(buf) == [buffer |-> buf, byteOffset |-> 0, err |-> NoErr]

\* byteOffset + length, as the uint32 the program computes
EndOffset(r, len) == Add32(U32(r.byteOffset), len)

\* checkBufferSize storing the outcome of every check in d.err: a check that
\* passes clears the error
checkBufferSize_Relatch(r, len) ==
    LET cont(end) ==
            IF Gt32(end, U32(Len(r.buffer)))
            THEN [r |-> [r EXCEPT !.err = ErrRange], e |-> ErrRange]
            ELSE [r |-> [r EXCEPT !.err = NoErr], e |-> NoErr]
    IN  Apply(cont, EndOffset(r, len))

\* returns [r, e]: the cursor as the check leaves it, and the error
checkBufferSize(r, len) ==
    LET cont(end) ==
            IF Gt32(end, U32(Len(r.buffer)))
            THEN [r |-> [r EXCEPT !.err = ErrRange], e |-> ErrRange]
            ELSE [r |-> r, e |-> NoErr]
    IN  IF r.err # NoErr THEN [r |-> r, e |-> r.err] ELSE Apply(cont, EndOffset(r, len))

\* d.buffer[d.byteOffset : d.byteOffset+length]; a slice whose end lies below
\* its start panics
GetBytes(r, len) ==
    LET cont(c) ==
            IF c.e # NoErr THEN [r |-> c.r, v |-> <<>>, e |-> c.e]
            ELSE Apply(LAMBDA end :
                           IF end < r.byteOffset THEN [r |-> c.r, v |-> <<>>, e |-> Panic]
                           ELSE [r |-> [c.r EXCEPT !.byteOffset = end],
                                 v |-> SubSeq(r.buffer, r.byteOffset + 1, end),
                                 e |-> NoErr],
                       Nat32(EndOffset(r, len)))
    IN  Apply(cont, checkBufferSize(r, len))

\* copy(d.buffer[d.byteOffset:], src)
SetBytes(r, src) ==
    LET cont(c) ==
            IF c.e # NoErr THEN [r |-> c.r, e |-> c.e]
            ELSE [r |-> [c.r EXCEPT
                           !.buffer = SubSeq(r.buffer, 1, r.byteOffset) \o src
                                      \o SubSeq(r.buffer, r.byteOffset + Len(src) + 1,
                                                Len(r.buffer)),
                           !.byteOffset = r.byteOffset + Len(src)],
                  e |-> NoErr]
    IN  Apply(cont, checkBufferSize(r, U32(Len(src))))

\* PeekUint8 with a bounds check of its own: it never consults d.err
PeekUint8_OwnCheck(r) ==
    IF r.byteOffset < Len(r.buffer)
    THEN [r |-> r, v |-> r.buffer[r.byteOffset + 1], e |-> NoErr]
    ELSE [r |-> [r EXCEPT !.err = ErrRange], v |-> 0, e |-> ErrRange]

PeekUint8(r) ==
    LET cont(c) ==
            IF c.e # NoErr THEN [r |-> c.r, v |-> 0, e |-> c.e]
            ELSE [r |-> c.r, v |-> r.buffer[r.byteOffset + 1], e |-> NoErr]
    IN  Apply(cont, checkBufferSize(r, U32(1)))

Discard(r, len) ==
    LET cont(c) ==
            IF c.e # NoErr THEN [r |-> c.r, e |-> c.e]
            ELSE [r |-> [c.r EXCEPT !.byteOffset = Nat32(EndOffset(r, len))], e |-> NoErr]
    IN  Apply(cont, checkBufferSize(r, len))

\* getWord advancing the offset before the outcome of the check is looked at
getWord_AdvancesFirst(r, n) ==
    LET cont(c) ==
            IF c.e # NoErr
            THEN [r |-> [c.r EXCEPT !.byteOffset = r.byteOffset + n], v |-> Rep(n, 0),
                  e |-> c.e]
            ELSE [r |-> [c.r EXCEPT !.byteOffset = r.byteOffset + n],
                  v |-> SubSeq(r.buffer, r.byteOffset + 1, r.byteOffset + n),
                  e |-> NoErr]
    IN  Apply(cont, checkBufferSize(r, U32(n)))

\* the big-endian reads: n bytes at the offset, as the word read
getWord(r, n) ==
    LET cont(c) ==
            IF c.e # NoErr THEN [r |-> c.r, v |-> Rep(n, 0), e |-> c.e]
            ELSE [r |-> [c.r EXCEPT !.byteOffset = r.byteOffset + n],
                  v |-> SubSeq(r.buffer, r.byteOffset + 1, r.byteOffset + n),
                  e |-> NoErr]
    IN  Apply(cont, checkBufferSize(r, U32(n)))

\* the big-endian writes: the n bytes of word w at the offset
setWord(r, w) == SetBytes(r, w)

GetUint8(r) ==
    Apply(LAMBDA g : [r |-> g.r, v |-> g.v[1], e |-> g.e], getWord(r, 1))
GetInt8(r) == getWord(r, 1)
GetInt16(r) == getWord(r, 2)
GetInt32(r) == getWord(r, 4)
GetInt64(r) == getWord(r, 8)
GetUint16(r) == getWord(r, 2)
GetUint32(r) == getWord(r, 4)
GetUint64(r) == getWord(r, 8)
GetFloat32(r) == getWord(r, 4)
GetFloat64(r) == getWord(r, 8)

SetUint8(r, b) == setWord(r, <<b>>)
SetInt8(r, w) == setWord(r, w)
SetInt16(r, w) == setWord(r, w)
SetInt32(r, w) == setWord(r, w)
SetInt64(r, w) == setWord(r, w)
SetUint16(r, w) == setWord(r, w)
SetUint32(r, w) == setWord(r, w)
SetUint64(r, w) == setWord(r, w)
SetFloat32(r, w) == setWord(r, w)
SetFloat64(r, w) == setWord(r, w)

-----------------------------------------------------------------------------
(* Sizer: every operation maps the length before it to the length after.   *)
(* A string or byte array argument is its sequence of bytes; a size        *)
(* argument is a uint32; an integer argument is a word of its width.       *)

NewSizer == 0

SizerWriteNil(s) == s + 1

SizerwriteStringLength(s, len) ==
    IF len < 32 THEN s + 1
    ELSE IF len <= 255 THEN s + 2
    ELSE IF len <= 65535 THEN s + 3
    ELSE s + 5

SizerWriteString(s, value) ==
    SizerwriteStringLength(s, Len(value)) + Len(value)

SizerWriteBool(s, value) == s + 1

SizerWriteArraySize(s, len) ==
    IF Lt32(len, U32(16)) THEN s + 1
    ELSE IF Le32(len, U32(65535)) THEN s + 3
    ELSE s + 5

SizerwriteBinLength(s, len) ==
    IF len < 255 THEN s + 1
    ELSE IF len <= 65535 THEN s + 2
    ELSE s + 4

\* WriteByteArray that leaves the tag byte out of the count
SizerWriteByteArray_NoTag(s, value) ==
    IF Len(value) = 0 THEN s + 2
    ELSE SizerwriteBinLength(s, Len(value)) + Len(value)

SizerWriteByteArray(s, value) ==
    IF Len(value) = 0 THEN s + 2
    ELSE SizerwriteBinLength(s, Len(value)) + Len(value) + 1

SizerWriteMapSize(s, len) ==
    IF Lt32(len, U32(16)) THEN s + 1
    ELSE IF Le32(len, U32(65535)) THEN s + 3
    ELSE s + 5

SizerWriteInt64(s, value) ==
    IF SLe(I64(-32), value) /\ SLt(value, I64(128)) THEN s + 1
    ELSE IF SLt(value, I64(128)) /\ SLe(I64(-128), value) THEN s + 2
    ELSE IF SLt(value, I64(32768)) /\ SLe(I64(-32768), value) THEN s + 3
    ELSE IF SLe(value, MaxInt32W) /\ SLe(MinInt32W, value) THEN s + 5
    ELSE s + 9

SizerWriteInt8(s, value) == SizerWriteInt64(s, SignExt(value))
SizerWriteInt16(s, value) == SizerWriteInt64(s, SignExt(value))
SizerWriteInt32(s, value) == SizerWriteInt64(s, SignExt(value))

SizerWriteUint64(s, value) ==
    IF ULt(value, I64(128)) THEN s + 1
    ELSE IF ULt(value, I64(256)) THEN s + 2
    ELSE IF ULt(value, I64(65536)) THEN s + 3
    ELSE IF ULe(value, MaxUint32W) THEN s + 5
    ELSE s + 9

SizerWriteUint8(s, value) == SizerWriteUint64(s, ZeroExt(value))
SizerWriteUint16(s, value) == SizerWriteUint64(s, ZeroExt(value))
SizerWriteUint32(s, value) == SizerWriteUint64(s, ZeroExt(value))

SizerWriteFloat32(s, value) == s + 5
SizerWriteFloat64(s, value) == s + 9

\* a time.Time is the pair of arguments that time.Unix makes it from: two
\* int64 words, the seconds and then the nanoseconds, 0 to 999999999
Unix(tm) == SubSeq(tm, 1, 8)

Nanosecond(tm) == SubSeq(tm, 9, 16)

\* encodeTime testing the high half of the seconds alone, the nanoseconds
\* left out of data
SizerencodeTime_IgnoresNanos(s, tm) ==
    LET cont(secs) ==
            IF shiftRight34(secs) = I64(0)
            THEN IF SubSeq(secs, 1, 4) = <<0, 0, 0, 0>> THEN 4 ELSE 8
            ELSE 12
    IN  Apply(cont, Unix(tm))

\* the value is the payload length; the Sizer is not changed
SizerencodeTime(s, tm) ==
    LET data(secs) == Or64(shiftLeft34(Nanosecond(tm)), secs)
        cont(secs) ==
            IF shiftRight34(secs) = I64(0)
            THEN IF SubSeq(data(secs), 1, 4) = <<0, 0, 0, 0>> THEN 4 ELSE 8
            ELSE 12
    IN  Apply(cont, Unix(tm))

SizerencodeExtLen(s, l) ==
    IF l \in {1, 2, 4, 8, 16} THEN s + 1
    ELSE IF l <= 255 THEN s + 2
    ELSE IF l <= 65535 THEN s + 3
    ELSE s + 5

SizerWriteTime(s, value) ==
    LET cont(l) == SizerencodeExtLen(s, l) + 1 + l
    IN  Apply(cont, SizerencodeTime(s, value))

\* a value of type any is <<k, v>>: k its dynamic type and v the value, nil
\* as <<>>, a bool as <<0>> or <<1>>, an int64 as a word, a string and a
\* []byte as their bytes, a []any as its elements, a map[any]any as its
\* keys and values in the order range yields them: key, value, key, value
RECURSIVE SizerWriteAny(_, _), SizerWriteAll(_, _)

\* the range loops of WriteAny: WriteAny on each of values in turn
SizerWriteAll(s, values) ==
    IF values = <<>> THEN s
    ELSE SizerWriteAll(SizerWriteAny(s, Head(values)), Tail(values))

\* the if before the switch does not return; of the cases of the switch,
\* those for nil, bool, int64, string, time.Time, []byte, []any and
\* map[any]any
SizerWriteAny(s, value) ==
    LET switch(t) ==
            CASE value[1] = "nil" -> SizerWriteNil(t)
              [] value[1] = "bool" -> SizerWriteBool(t, value[2])
              [] value[1] = "int64" -> SizerWriteInt64(t, value[2])
              [] value[1] = "string" -> SizerWriteString(t, value[2])
              [] value[1] = "time.Time" -> SizerWriteTime(t, value[2])
              [] value[1] = "[]byte" -> SizerWriteByteArray(t, value[2])
              [] value[1] = "[]any"
                   -> SizerWriteAll(SizerWriteArraySize(t, U32(Len(value[2]))), value[2])
              [] value[1] = "map[any]any"
                   -> SizerWriteAll(SizerWriteMapSize(t, U32(Len(value[2]) \div 2)), value[2])
    IN  Apply(switch, IF value[1] = "nil" THEN SizerWriteNil(s) ELSE s)

-----------------------------------------------------------------------------
(* Encoder: every operation maps the cursor before it to the cursor after; *)
(* the errors the cursor returns are dropped, as the methods drop them.    *)

NewEncoder(buf) == NewDataReader(buf)

EncoderWriteNil(r) == SetUint8(r, FormatNil).r

EncoderWriteBool(r, value) ==
    IF value THEN SetUint8(r, FormatTrue).r ELSE SetUint8(r, FormatFalse).r

\* WriteInt64 without the int 8 case
EncoderWriteInt64_NoInt8(r, value) ==
    IF SLe(I64(0), value) /\ SLt(value, I64(128))
    THEN SetUint8(r, Low(value, 1)[1]).r
    ELSE IF SLt(value, I64(0)) /\ SLe(I64(-32), value)
    THEN SetUint8(r, BitOr(Low(value, 1)[1], FormatNegativeFixInt)).r
    ELSE IF SLe(value, MaxInt16W) /\ SLe(MinInt16W, value)
    THEN SetInt16(SetUint8(r, FormatInt16).r, Low(value, 2)).r
    ELSE IF SLe(value, MaxInt32W) /\ SLe(MinInt32W, value)
    THEN SetInt32(SetUint8(r, FormatInt32).r, Low(value, 4)).r
    ELSE SetInt64(SetUint8(r, FormatInt64).r, value).r

EncoderWriteInt64(r, value) ==
    IF SLe(I64(0), value) /\ SLt(value, I64(128))
    THEN SetUint8(r, Low(value, 1)[1]).r
    ELSE IF SLt(value, I64(0)) /\ SLe(I64(-32), value)
    THEN SetUint8(r, BitOr(Low(value, 1)[1], FormatNegativeFixInt)).r
    ELSE IF SLe(value, MaxInt8W) /\ SLe(MinInt8W, value)
    THEN SetInt8(SetUint8(r, FormatInt8).r, Low(value, 1)).r
    ELSE IF SLe(value, MaxInt16W) /\ SLe(MinInt16W, value)
    THEN SetInt16(SetUint8(r, FormatInt16).r, Low(value, 2)).r
    ELSE IF SLe(value, MaxInt32W) /\ SLe(MinInt32W, value)
    THEN SetInt32(SetUint8(r, FormatInt32).r, Low(value, 4)).r
    ELSE SetInt64(SetUint8(r, FormatInt64).r, value).r

EncoderWriteInt8(r, value) == EncoderWriteInt64(r, SignExt(value))
EncoderWriteInt16(r, value) == EncoderWriteInt64(r, SignExt(value))
EncoderWriteInt32(r, value) == EncoderWriteInt64(r, SignExt(value))

EncoderWriteUint64(r, value) ==
    IF ULt(value, I64(128))
    THEN SetUint8(r, Low(value, 1)[1]).r
    ELSE IF ULe(value, MaxUint8W)
    THEN SetUint8(SetUint8(r, FormatUint8).r, Low(value, 1)[1]).r
    ELSE IF ULe(value, MaxUint16W)
    THEN SetUint16(SetUint8(r, FormatUint16).r, Low(value, 2)).r
    ELSE IF ULe(value, MaxUint32W)
    THEN SetUint32(SetUint8(r, FormatUint32).r, Low(value, 4)).r
    ELSE SetUint64(SetUint8(r, FormatUint64).r, value).r

EncoderWriteUint8(r, value) == EncoderWriteUint64(r, ZeroExt(value))
EncoderWriteUint16(r, value) == EncoderWriteUint64(r, ZeroExt(value))
EncoderWriteUint32(r, value) == EncoderWriteUint64(r, ZeroExt(value))

EncoderWriteFloat32(r, value) == SetFloat32(SetUint8(r, FormatFloat32).r, value).r

EncoderWriteFloat64(r, value) == SetFloat64(SetUint8(r, FormatFloat64).r, value).r

EncoderwriteStringLength(r, len) ==
    IF len < 32 THEN SetUint8(r, BitOr(len, FormatFixString)).r
    ELSE IF len <= 255 THEN SetUint8(SetUint8(r, FormatString8).r, len).r
    ELSE IF len <= 65535 THEN SetUint16(SetUint8(r, FormatString16).r, Low(I64(len), 2)).r
    ELSE SetUint32(SetUint8(r, FormatString32).r, Low(I64(len), 4)).r

EncoderWriteString(r, value) ==
    SetBytes(EncoderwriteStringLength(r, Len(value)), value).r

EncoderwriteBinLength(r, len) ==
    IF len <= 255 THEN SetUint8(SetUint8(r, FormatBin8).r, len).r
    ELSE IF len <= 65535 THEN SetUint16(SetUint8(r, FormatBin16).r, Low(I64(len), 2)).r
    ELSE SetUint32(SetUint8(r, FormatBin32).r, Low(I64(len), 4)).r

EncoderWriteByteArray(r, value) ==
    IF Len(value) = 0 THEN EncoderWriteNil(r)
    ELSE SetBytes(EncoderwriteBinLength(r, Len(value)), value).r

EncoderWriteArraySize(r, len) ==
    IF Lt32(len, U32(16)) THEN SetUint8(r, BitOr(len[2], FormatFixArray)).r
    ELSE IF Le32(len, U32(65535))
    THEN SetUint16(SetUint8(r, FormatArray16).r, Low(BytesOfU32(len), 2)).r
    ELSE SetUint32(SetUint8(r, FormatArray32).r, BytesOfU32(len)).r

EncoderWriteMapSize(r, len) ==
    IF Lt32(len, U32(16)) THEN SetUint8(r, BitOr(len[2], FormatFixMap)).r
    ELSE IF Le32(len, U32(65535))
    THEN SetUint16(SetUint8(r, FormatMap16).r, Low(BytesOfU32(len), 2)).r
    ELSE SetUint32(SetUint8(r, FormatMap32).r, BytesOfU32(len)).r

-----------------------------------------------------------------------------
(* The DataReader without the err check: every Set method tests the room   *)
(* for its own bytes and returns ErrRange when they do not fit; nothing is *)
(* stored in d.err.  Below it, the Encoder methods WriteNil, WriteBool and *)
(* WriteInt64 over this cursor.                                            *)

\* SetInt8 .. SetUint64: the bytes of w at the offset when they fit
SetWordNoLatch(r, w) ==
    IF Gt32(EndOffset(r, U32(Len(w))), U32(Len(r.buffer))) THEN [r |-> r, e |-> ErrRange]
    ELSE [r |-> [r EXCEPT
                   !.buffer = SubSeq(r.buffer, 1, r.byteOffset) \o w
                              \o SubSeq(r.buffer, r.byteOffset + Len(w) + 1, Len(r.buffer)),
                   !.byteOffset = r.byteOffset + Len(w)],
          e |-> NoErr]

SetUint8NoLatch(r, value) ==
    IF r.byteOffset >= Len(r.buffer) THEN [r |-> r, e |-> ErrRange]
    ELSE [r |-> [r EXCEPT !.buffer[r.byteOffset + 1] = value,
                          !.byteOffset = r.byteOffset + 1],
          e |-> NoErr]

WriteNilNoLatch(r) == SetUint8NoLatch(r, FormatNil).r

WriteBoolNoLatch(r, value) ==
    IF value THEN SetUint8NoLatch(r, FormatTrue).r ELSE SetUint8NoLatch(r, FormatFalse).r

WriteInt64NoLatch(r, value) ==
    IF SLe(I64(0), value) /\ SLt(value, I64(128))
    THEN SetUint8NoLatch(r, Low(value, 1)[1]).r
    ELSE IF SLt(value, I64(0)) /\ SLe(I64(-32), value)
    THEN SetUint8NoLatch(r, BitOr(Low(value, 1)[1], FormatNegativeFixInt)).r
    ELSE IF SLe(value, MaxInt8W) /\ SLe(MinInt8W, value)
    THEN SetWordNoLatch(SetUint8NoLatch(r, FormatInt8).r, Low(value, 1)).r
    ELSE IF SLe(value, MaxInt16W) /\ SLe(MinInt16W, value)
    THEN SetWordNoLatch(SetUint8NoLatch(r, FormatInt16).r, Low(value, 2)).r
    ELSE IF SLe(value, MaxInt32W) /\ SLe(MinInt32W, value)
    THEN SetWordNoLatch(SetUint8NoLatch(r, FormatInt32).r, Low(value, 4)).r
    ELSE SetWordNoLatch(SetUint8NoLatch(r, FormatInt64).r, value).r

-----------------------------------------------------------------------------
(* Decoder: every operation maps the cursor before it to [r, k, v, e]:     *)
(* the cursor after it, the kind of the value returned, the value as bytes *)
(* and the error returned.                                                 *)

NewDecoder(buf) == NewDataReader(buf)

Ret(r, k, v, e) == [r |-> r, k |-> k, v |-> v, e |-> e]

isFixedInt(u) == u \div 128 = 0

\* isNegativeFixedInt with the mask of the fixmap and fixarray tests
isNegativeFixedInt_WideMask(u) == BitAnd(u, 240) = FormatNegativeFixInt

isNegativeFixedInt(u) == BitAnd(u, 224) = FormatNegativeFixInt

isFixedMap(u) == BitAnd(u, 240) = FormatFixMap
isFixedArray(u) == BitAnd(u, 240) = FormatFixArray
isFixedString(u) == BitAnd(u, 224) = FormatFixString

isString(u) ==
    \/ isFixedString(u)
    \/ u = FormatString8
    \/ u = FormatString16
    \/ u = FormatString32
    \/ isFixedArray(u)
    \/ u = FormatArray16
    \/ u = FormatArray32

\* IsNextNil without the Discard: the nil byte stays at the offset
IsNextNil_PeekOnly(r) ==
    LET cont(p) ==
            IF p.e # NoErr THEN Ret(p.r, "bool", <<0>>, p.e)
            ELSE IF p.v = FormatNil THEN Ret(p.r, "bool", <<1>>, NoErr)
            ELSE Ret(p.r, "bool", <<0>>, NoErr)
    IN  Apply(cont, PeekUint8(r))

\* v is <<1>> when the next byte is nil; the nil byte is then discarded
IsNextNil(r) ==
    LET cont(p) ==
            IF p.e # NoErr THEN Ret(p.r, "bool", <<0>>, p.e)
            ELSE IF p.v = FormatNil THEN Ret(Discard(p.r, U32(1)).r, "bool", <<1>>, NoErr)
            ELSE Ret(p.r, "bool", <<0>>, NoErr)
    IN  Apply(cont, PeekUint8(r))

\* ReadBool looking at the prefix without looking at the error of GetUint8
ReadBool_IgnoresErr(r) ==
    LET cont(g) ==
            IF g.e = NoErr /\ g.v = FormatTrue THEN Ret(g.r, "bool", <<1>>, NoErr)
            ELSE IF g.e = NoErr /\ g.v = FormatFalse THEN Ret(g.r, "bool", <<0>>, NoErr)
            ELSE Ret(g.r, "bool", <<0>>, ReadError("bad value for bool"))
    IN  Apply(cont, GetUint8(r))

ReadBool(r) ==
    LET cont(g) ==
            IF g.e # NoErr THEN Ret(g.r, "bool", <<0>>, g.e)
            ELSE IF g.v = FormatTrue THEN Ret(g.r, "bool", <<1>>, NoErr)
            ELSE IF g.v = FormatFalse THEN Ret(g.r, "bool", <<0>>, NoErr)
            ELSE Ret(g.r, "bool", <<0>>, ReadError("bad value for bool"))
    IN  Apply(cont, GetUint8(r))

\* ReadInt64 that takes a fixint as int64(prefix), without int8()
ReadInt64_NoInt8Cast(r) ==
    LET cont(g) ==
            IF g.e # NoErr THEN Ret(g.r, "int64", I64(0), g.e)
            ELSE IF isFixedInt(g.v) \/ isNegativeFixedInt(g.v)
            THEN Ret(g.r, "int64", ZeroExt(<<g.v>>), NoErr)
            ELSE IF g.v = FormatInt8
            THEN Apply(LAMBDA x : Ret(x.r, "int64", SignExt(x.v), x.e), GetInt8(g.r))
            ELSE IF g.v = FormatInt16
            THEN Apply(LAMBDA x : Ret(x.r, "int64", SignExt(x.v), x.e), GetInt16(g.r))
            ELSE IF g.v = FormatInt32
            THEN Apply(LAMBDA x : Ret(x.r, "int64", SignExt(x.v), x.e), GetInt32(g.r))
            ELSE IF g.v = FormatInt64
            THEN Apply(LAMBDA x : Ret(x.r, "int64", SignExt(x.v), x.e), GetInt64(g.r))
            ELSE Ret(g.r, "int64", I64(0), ReadError("bad prefix for int64"))
    IN  Apply(cont, GetUint8(r))

\* the value is an int64 word
ReadInt64(r) ==
    LET cont(g) ==
            IF g.e # NoErr THEN Ret(g.r, "int64", I64(0), g.e)
            ELSE IF isFixedInt(g.v) \/ isNegativeFixedInt(g.v)
            THEN Ret(g.r, "int64", SignExt(<<g.v>>), NoErr)
            ELSE IF g.v = FormatInt8
            THEN Apply(LAMBDA x : Ret(x.r, "int64", SignExt(x.v), x.e), GetInt8(g.r))
            ELSE IF g.v = FormatInt16
            THEN Apply(LAMBDA x : Ret(x.r, "int64", SignExt(x.v), x.e), GetInt16(g.r))
            ELSE IF g.v = FormatInt32
            THEN Apply(LAMBDA x : Ret(x.r, "int64", SignExt(x.v), x.e), GetInt32(g.r))
            ELSE IF g.v = FormatInt64
            THEN Apply(LAMBDA x : Ret(x.r, "int64", SignExt(x.v), x.e), GetInt64(g.r))
            ELSE Ret(g.r, "int64", I64(0), ReadError("bad prefix for int64"))
    IN  Apply(cont, GetUint8(r))

\* "integer overflow: value = " + v + "; bits = " + bits
OverflowError(v, bits) == <<"ReadError", "integer overflow", v, bits>>

\* the range check storing the overflow error in the cursor
readIntN_Latches(r, k, lo, hi, bytes) ==
    LET cont(x) ==
            IF x.e # NoErr THEN Ret(x.r, k, Rep(bytes, 0), x.e)
            ELSE IF SLe(x.v, hi) /\ SLe(lo, x.v) THEN Ret(x.r, k, Low(x.v, bytes), NoErr)
            ELSE Ret([x.r EXCEPT !.err = OverflowError(x.v, 8 * bytes)], k, Rep(bytes, 0),
                     OverflowError(x.v, 8 * bytes))
    IN  Apply(cont, ReadInt64(r))

\* ReadInt8, ReadInt16, ReadInt32: the range check after ReadInt64
readIntN(r, k, lo, hi, bytes) ==
    LET cont(x) ==
            IF x.e # NoErr THEN Ret(x.r, k, Rep(bytes, 0), x.e)
            ELSE IF SLe(x.v, hi) /\ SLe(lo, x.v) THEN Ret(x.r, k, Low(x.v, bytes), NoErr)
            ELSE Ret(x.r, k, Rep(bytes, 0), OverflowError(x.v, 8 * bytes))
    IN  Apply(cont, ReadInt64(r))

ReadInt8(r) == readIntN(r, "int8", MinInt8W, MaxInt8W, 1)
ReadInt16(r) == readIntN(r, "int16", MinInt16W, MaxInt16W, 2)
ReadInt32(r) == readIntN(r, "int32", MinInt32W, MaxInt32W, 4)

\* a signed read inside ReadUint64 without the test v < 0
signedAsUint_NoSignCheck(x) == Ret(x.r, "uint64", SignExt(x.v), x.e)

\* a signed read inside ReadUint64: negative values are a bad prefix
signedAsUint(x) ==
    IF SLt(SignExt(x.v), I64(0))
    THEN Ret(x.r, "uint64", I64(0), ReadError("bad prefix for uint"))
    ELSE Ret(x.r, "uint64", SignExt(x.v), x.e)

\* the value is a uint64 word
ReadUint64(r) ==
    LET cont(g) ==
            IF g.e # NoErr THEN Ret(g.r, "uint64", I64(0), g.e)
            ELSE IF isFixedInt(g.v) THEN Ret(g.r, "uint64", ZeroExt(<<g.v>>), NoErr)
            ELSE IF isNegativeFixedInt(g.v)
            THEN IF SLt(SignExt(<<g.v>>), I64(0))
                 THEN Ret(g.r, "uint64", I64(0), ReadError("bad prefix for uint"))
                 ELSE Ret(g.r, "uint64", SignExt(<<g.v>>), g.e)
            ELSE IF g.v = FormatUint8
            THEN Apply(LAMBDA x : Ret(x.r, "uint64", ZeroExt(<<x.v>>), x.e), GetUint8(g.r))
            ELSE IF g.v = FormatUint16
            THEN Apply(LAMBDA x : Ret(x.r, "uint64", ZeroExt(x.v), x.e), GetUint16(g.r))
            ELSE IF g.v = FormatUint32
            THEN Apply(LAMBDA x : Ret(x.r, "uint64", ZeroExt(x.v), x.e), GetUint32(g.r))
            ELSE IF g.v = FormatUint64
            THEN Apply(LAMBDA x : Ret(x.r, "uint64", ZeroExt(x.v), x.e), GetUint64(g.r))
            ELSE IF g.v = FormatInt8 THEN Apply(signedAsUint, GetInt8(g.r))
            ELSE IF g.v = FormatInt16 THEN Apply(signedAsUint, GetInt16(g.r))
            ELSE IF g.v = FormatInt32 THEN Apply(signedAsUint, GetInt32(g.r))
            ELSE IF g.v = FormatInt64 THEN Apply(signedAsUint, GetInt64(g.r))
            ELSE Ret(g.r, "uint64", I64(0), ReadError("bad prefix for uint"))
    IN  Apply(cont, GetUint8(r))

\* the conversion without the range check: the low bytes of the value
readUintN_Truncates(r, k, hi, bytes) ==
    LET cont(x) ==
            IF x.e # NoErr THEN Ret(x.r, k, Rep(bytes, 0), x.e)
            ELSE Ret(x.r, k, Low(x.v, bytes), NoErr)
    IN  Apply(cont, ReadUint64(r))

\* ReadUint8, ReadUint16, ReadUint32: the range check after ReadUint64
readUintN(r, k, hi, bytes) ==
    LET cont(x) ==
            IF x.e # NoErr THEN Ret(x.r, k, Rep(bytes, 0), x.e)
            ELSE IF ULe(x.v, hi) THEN Ret(x.r, k, Low(x.v, bytes), NoErr)
            ELSE Ret(x.r, k, Rep(bytes, 0), OverflowError(x.v, 8 * bytes))
    IN  Apply(cont, ReadUint64(r))

ReadUint8(r) == readUintN(r, "uint8", MaxUint8W, 1)
ReadUint16(r) == readUintN(r, "uint16", MaxUint16W, 2)
ReadUint32(r) == readUintN(r, "uint32", MaxUint32W, 4)

\* a float64 narrowed to float32 keeps its 8 bytes under the kind
\* "float32(float64)": the narrowing itself is not computed
ReadFloat32(r) ==
    LET cont(g) ==
            IF g.e # NoErr THEN Ret(g.r, "float32", Rep(4, 0), g.e)
            ELSE IF g.v = FormatFloat32
            THEN Apply(LAMBDA x : Ret(x.r, "float32", x.v, x.e), GetFloat32(g.r))
            ELSE IF g.v = FormatFloat64
            THEN Apply(LAMBDA x : Ret(x.r, "float32(float64)", x.v, x.e), GetFloat64(g.r))
            ELSE Ret(g.r, "float32", Rep(4, 0), ReadError("bad prefix for float32"))
    IN  Apply(cont, GetUint8(r))

ReadFloat64(r) ==
    LET cont(g) ==
            IF g.e # NoErr THEN Ret(g.r, "float64", Rep(8, 0), g.e)
            ELSE IF g.v = FormatFloat64
            THEN Apply(LAMBDA x : Ret(x.r, "float64", x.v, x.e), GetFloat64(g.r))
            ELSE Ret(g.r, "float64", Rep(8, 0), ReadError("bad prefix for float64"))
    IN  Apply(cont, GetUint8(r))

\* the value is the uint32 length
readStringLength(r) ==
    LET cont(g) ==
            IF g.e # NoErr THEN Ret(g.r, "uint32", U32(0), g.e)
            ELSE IF isFixedString(g.v) THEN Ret(g.r, "uint32", U32(BitAnd(g.v, 31)), NoErr)
            ELSE IF isFixedArray(g.v)
            THEN Ret(g.r, "uint32", U32(BitAnd(g.v, FormatFourLeastSigBitsInByte)), NoErr)
            ELSE IF g.v = FormatString8
            THEN Apply(LAMBDA x : Ret(x.r, "uint32", U32(x.v), x.e), GetUint8(g.r))
            ELSE IF g.v = FormatString16 \/ g.v = FormatArray16
            THEN Apply(LAMBDA x : Ret(x.r, "uint32", U32OfBytes(x.v), x.e), GetUint16(g.r))
            ELSE IF g.v = FormatString32 \/ g.v = FormatArray32
            THEN Apply(LAMBDA x : Ret(x.r, "uint32", U32OfBytes(x.v), x.e), GetUint32(g.r))
            ELSE Ret(g.r, "uint32", U32(0), ReadError("bad prefix for string length"))
    IN  Apply(cont, GetUint8(r))

\* readString(strLen, err) on the cursor r
readString(r, strLen, e) ==
    IF e # NoErr THEN Ret(r, "string", <<>>, e)
    ELSE Apply(LAMBDA b : Ret(b.r, "string", b.v, b.e), GetBytes(r, strLen))

ReadString(r) ==
    Apply(LAMBDA n : readString(n.r, n.v, n.e), readStringLength(r))

readBinLength(r) ==
    LET cont(g) ==
            IF g.e # NoErr THEN Ret(g.r, "uint32", U32(0), g.e)
            ELSE IF isFixedArray(g.v)
            THEN Ret(g.r, "uint32", U32(BitAnd(g.v, FormatFourLeastSigBitsInByte)), NoErr)
            ELSE IF g.v = FormatNil THEN Ret(g.r, "uint32", U32(0), NoErr)
            ELSE IF g.v = FormatBin8
            THEN Apply(LAMBDA x : Ret(x.r, "uint32", U32(x.v), x.e), GetUint8(g.r))
            ELSE IF g.v = FormatBin16
            THEN Apply(LAMBDA x : Ret(x.r, "uint32", U32OfBytes(x.v), x.e), GetUint16(g.r))
            ELSE IF g.v = FormatBin32
            THEN Apply(LAMBDA x : Ret(x.r, "uint32", U32OfBytes(x.v), x.e), GetUint32(g.r))
            ELSE Ret(g.r, "uint32", U32(0), ReadError("bad prefix for binary length"))
    IN  Apply(cont, GetUint8(r))

ReadByteArray(r) ==
    LET cont(n) ==
            IF n.e # NoErr THEN Ret(n.r, "bytes", <<>>, n.e)
            ELSE Apply(LAMBDA b : Ret(b.r, "bytes", b.v, b.e), GetBytes(n.r, n.v))
    IN  Apply(cont, readBinLength(r))

ReadArraySize(r) ==
    LET cont(g) ==
            IF g.e # NoErr THEN Ret(g.r, "uint32", U32(0), g.e)
            ELSE IF isFixedArray(g.v)
            THEN Ret(g.r, "uint32", U32(BitAnd(g.v, FormatFourLeastSigBitsInByte)), NoErr)
            ELSE IF g.v = FormatArray16
            THEN Apply(LAMBDA x : Ret(x.r, "uint32", U32OfBytes(x.v), x.e), GetUint16(g.r))
            ELSE IF g.v = FormatArray32
            THEN Apply(LAMBDA x : Ret(x.r, "uint32", U32OfBytes(x.v), x.e), GetUint32(g.r))
            ELSE IF g.v = FormatNil THEN Ret(g.r, "uint32", U32(0), NoErr)
            ELSE Ret(g.r, "uint32", U32(0), ReadError("bad prefix for array length"))
    IN  Apply(cont, GetUint8(r))

ReadMapSize(r) ==
    LET cont(g) ==
            IF g.e # NoErr THEN Ret(g.r, "uint32", U32(0), g.e)
            ELSE IF isFixedMap(g.v)
            THEN Ret(g.r, "uint32", U32(BitAnd(g.v, FormatFourLeastSigBitsInByte)), NoErr)
            ELSE IF g.v = FormatMap16
            THEN Apply(LAMBDA x : Ret(x.r, "uint32", U32OfBytes(x.v), x.e), GetUint16(g.r))
            ELSE IF g.v = FormatMap32
            THEN Apply(LAMBDA x : Ret(x.r, "uint32", U32OfBytes(x.v), x.e), GetUint32(g.r))
            ELSE IF g.v = FormatNil THEN Ret(g.r, "uint32", U32(0), NoErr)
            ELSE Ret(g.r, "uint32", U32(0), ReadError("bad prefix for map length"))
    IN  Apply(cont, GetUint8(r))

\* Discard whose error the caller drops
discardQuiet(r, n) == Discard(r, U32(n)).r

\* a length x read from the buffer followed by Discard of that length, both
\* checked; conv is the conversion uint32(length)
discardCounted(x, conv(_)) ==
    IF x.e # NoErr THEN Ret(x.r, "uint32", U32(0), x.e)
    ELSE Apply(LAMBDA d : Ret(d.r, "uint32", U32(0), d.e), Discard(x.r, conv(x.v)))

\* a child count x read from the buffer; twice is TRUE for maps
childCount(x, twice) ==
    IF x.e # NoErr THEN Ret(x.r, "uint32", U32(0), x.e)
    ELSE Ret(x.r, "uint32",
             IF twice THEN Mul2_32(U32OfBytes(x.v)) ELSE U32OfBytes(x.v), NoErr)

\* uint32(length) of a uint8
U32OfByte(b) == U32(b)

\* the value is objectsToDiscard
getSize(r) ==
    LET none(c) == Ret(c, "uint32", U32(0), NoErr)
        string(x) == discardCounted(x, U32OfBytes)
        array(x) == childCount(x, FALSE)
        map(x) == childCount(x, TRUE)
        cont(g) ==
            IF g.e # NoErr THEN Ret(g.r, "uint32", U32(0), g.e)
            ELSE IF isNegativeFixedInt(g.v) \/ isFixedInt(g.v) THEN none(g.r)
            ELSE IF isFixedString(g.v) THEN none(discardQuiet(g.r, BitAnd(g.v, 31)))
            ELSE IF isFixedArray(g.v)
            THEN Ret(g.r, "uint32", U32(BitAnd(g.v, FormatFourLeastSigBitsInByte)), NoErr)
            ELSE IF isFixedMap(g.v)
            THEN Ret(g.r, "uint32", U32(2 * BitAnd(g.v, FormatFourLeastSigBitsInByte)),
                     NoErr)
            ELSE IF g.v \in {FormatNil, FormatTrue, FormatFalse} THEN none(g.r)
            ELSE IF g.v \in {FormatString8, FormatBin8}
            THEN LET byte(x) == discardCounted(x, U32OfByte) IN Apply(byte, GetUint8(g.r))
            ELSE IF g.v \in {FormatString16, FormatBin16} THEN Apply(string, GetUint16(g.r))
            ELSE IF g.v \in {FormatString32, FormatBin32} THEN Apply(string, GetUint32(g.r))
            ELSE IF g.v = FormatFloat32 THEN none(discardQuiet(g.r, 4))
            ELSE IF g.v = FormatFloat64 THEN none(discardQuiet(g.r, 8))
            ELSE IF g.v \in {FormatUint8, FormatInt8} THEN none(discardQuiet(g.r, 1))
            ELSE IF g.v \in {FormatUint16, FormatInt16} THEN none(discardQuiet(g.r, 2))
            ELSE IF g.v \in {FormatUint32, FormatInt32} THEN none(discardQuiet(g.r, 4))
            ELSE IF g.v \in {FormatUint64, FormatInt64} THEN none(discardQuiet(g.r, 8))
            ELSE IF g.v = FormatFixExt1 THEN none(discardQuiet(g.r, 1))
            ELSE IF g.v = FormatFixExt2 THEN none(discardQuiet(g.r, 3))
            ELSE IF g.v = FormatFixExt4 THEN none(discardQuiet(g.r, 5))
            ELSE IF g.v = FormatFixExt8 THEN none(discardQuiet(g.r, 9))
            ELSE IF g.v = FormatFixExt16 THEN none(discardQuiet(g.r, 17))
            ELSE IF g.v = FormatArray16 THEN Apply(array, GetUint16(g.r))
            ELSE IF g.v = FormatArray32 THEN Apply(array, GetUint32(g.r))
            ELSE IF g.v = FormatMap16 THEN Apply(map, GetUint16(g.r))
            ELSE IF g.v = FormatMap32 THEN Apply(map, GetUint32(g.r))
            ELSE Ret(g.r, "uint32", U32(0), ReadError("bad prefix"))
    IN  Apply(cont, GetUint8(r))

RECURSIVE Skip(_), skipLoop(_, _)

\* the loop of Skip over numberOfObjectsToDiscard
skipLoop(r, n) ==
    LET cont(k, m) == IF k.e # NoErr THEN k ELSE skipLoop(k.r, Dec32(m))
    IN  IF ~Gt32(n, U32(0)) THEN [r |-> r, e |-> NoErr] ELSE Apply2(cont, Skip(r), n)

Skip(r) ==
    LET cont(s) ==
            IF s.e # NoErr THEN [r |-> s.r, e |-> s.e] ELSE skipLoop(s.r, s.v)
    IN  Apply(cont, getSize(r))

\* the value is buffer[start:end]; a slice with start > end panics
ReadRaw(r) ==
    LET cont(k) ==
            IF k.e # NoErr THEN Ret(k.r, "Raw", <<>>, k.e)
            ELSE IF k.r.byteOffset < r.byteOffset THEN Ret(k.r, "Raw", <<>>, Panic)
            ELSE Ret(k.r, "Raw", SubSeq(r.buffer, r.byteOffset + 1, k.r.byteOffset), NoErr)
    IN  Apply(cont, Skip(r))

\* dynamic types that cannot be map keys
Unhashable == {"[]any", "map[any]any", "[]byte"}

RECURSIVE ReadAny(_), readArray(_, _), readMap(_, _)

\* the loop of readArray over the n elements still to read; make([]any, n)
\* is taken to succeed
readArray(r, n) ==
    LET cont(x, m) ==
            IF x.e # NoErr THEN [r |-> x.r, e |-> x.e] ELSE readArray(x.r, Dec32(m))
    IN  IF ~Gt32(n, U32(0)) THEN [r |-> r, e |-> NoErr] ELSE Apply2(cont, ReadAny(r), n)

\* readMap counting single values: one ReadAny for each of the n
readMap_Elements(r, n) ==
    LET cont(x, m) ==
            IF x.e # NoErr THEN [r |-> x.r, e |-> x.e] ELSE readMap(x.r, Dec32(m))
    IN  IF ~Gt32(n, U32(0)) THEN [r |-> r, e |-> NoErr] ELSE Apply2(cont, ReadAny(r), n)

\* the loop of readMap over the n pairs still to read; m[key] = value
\* panics on a key that cannot be hashed
readMap(r, n) ==
    LET pair(key, value, m) ==
            IF value.e # NoErr THEN [r |-> value.r, e |-> value.e]
            ELSE IF key.k \in Unhashable THEN [r |-> value.r, e |-> Panic]
            ELSE readMap(value.r, Dec32(m))
        cont(key, m) ==
            LET then(value) == pair(key, value, m)
            IN  IF key.e # NoErr THEN [r |-> key.r, e |-> key.e]
                ELSE Apply(then, ReadAny(key.r))
    IN  IF ~Gt32(n, U32(0)) THEN [r |-> r, e |-> NoErr] ELSE Apply2(cont, ReadAny(r), n)

\* the contents of an array or a map are not kept: the value is <<>>
ReadAny(r) ==
    LET scalar(x, k) == Ret(x.r, k, x.v, x.e)
        int8(x) == scalar(x, "int8")
        int16(x) == scalar(x, "int16")
        int32(x) == scalar(x, "int32")
        int64(x) == scalar(x, "int64")
        uint8(x) == Ret(x.r, "uint8", <<x.v>>, x.e)
        uint16(x) == scalar(x, "uint16")
        uint32(x) == scalar(x, "uint32")
        uint64(x) == scalar(x, "uint64")
        float32(x) == scalar(x, "float32")
        float64(x) == scalar(x, "float64")
        str8(x) == readString(x.r, U32(x.v), x.e)
        str(x) == readString(x.r, U32OfBytes(x.v), x.e)
        elements(a) == Ret(a.r, "[]any", <<>>, a.e)
        ary(x) ==
            IF x.e # NoErr THEN Ret(x.r, "nil", <<>>, x.e)
            ELSE Apply(elements, readArray(x.r, U32OfBytes(x.v)))
        pairs(m) == Ret(m.r, "map[any]any", <<>>, m.e)
        map(x) ==
            IF x.e # NoErr THEN Ret(x.r, "nil", <<>>, x.e)
            ELSE Apply(pairs, readMap(x.r, U32OfBytes(x.v)))
        bytes(b) == Ret(b.r, "[]byte", b.v, b.e)
        bin8(x) ==
            IF x.e # NoErr THEN Ret(x.r, "nil", <<>>, x.e)
            ELSE Apply(bytes, GetBytes(x.r, U32(x.v)))
        bin(x) ==
            IF x.e # NoErr THEN Ret(x.r, "nil", <<>>, x.e)
            ELSE Apply(bytes, GetBytes(x.r, U32OfBytes(x.v)))
        low4(g) == U32(BitAnd(g.v, FormatFourLeastSigBitsInByte))
        cont(g) ==
            IF g.e # NoErr THEN Ret(g.r, "bool", <<0>>, g.e)
            ELSE IF isFixedInt(g.v) \/ isNegativeFixedInt(g.v)
            THEN Ret(g.r, "int64", SignExt(<<g.v>>), NoErr)
            ELSE IF isFixedString(g.v) THEN readString(g.r, U32(BitAnd(g.v, 31)), NoErr)
            ELSE IF isFixedArray(g.v) THEN Apply(elements, readArray(g.r, low4(g)))
            ELSE IF isFixedMap(g.v) THEN Apply(pairs, readMap(g.r, low4(g)))
            ELSE IF g.v = FormatNil THEN Ret(g.r, "nil", <<>>, NoErr)
            ELSE IF g.v = FormatTrue THEN Ret(g.r, "bool", <<1>>, NoErr)
            ELSE IF g.v = FormatFalse THEN Ret(g.r, "bool", <<0>>, NoErr)
            ELSE IF g.v = FormatInt8 THEN Apply(int8, GetInt8(g.r))
            ELSE IF g.v = FormatInt16 THEN Apply(int16, GetInt16(g.r))
            ELSE IF g.v = FormatInt32 THEN Apply(int32, GetInt32(g.r))
            ELSE IF g.v = FormatInt64 THEN Apply(int64, GetInt64(g.r))
            ELSE IF g.v = FormatUint8 THEN Apply(uint8, GetUint8(g.r))
            ELSE IF g.v = FormatUint16 THEN Apply(uint16, GetUint16(g.r))
            ELSE IF g.v = FormatUint32 THEN Apply(uint32, GetUint32(g.r))
            ELSE IF g.v = FormatUint64 THEN Apply(uint64, GetUint64(g.r))
            ELSE IF g.v = FormatFloat32 THEN Apply(float32, GetFloat32(g.r))
            ELSE IF g.v = FormatFloat64 THEN Apply(float64, GetFloat64(g.r))
            ELSE IF g.v = FormatString8 THEN Apply(str8, GetUint8(g.r))
            ELSE IF g.v = FormatString16 THEN Apply(str, GetUint16(g.r))
            ELSE IF g.v = FormatString32 THEN Apply(str, GetUint32(g.r))
            ELSE IF g.v = FormatArray16 THEN Apply(ary, GetUint16(g.r))
            ELSE IF g.v = FormatArray32 THEN Apply(ary, GetUint32(g.r))
            ELSE IF g.v = FormatMap16 THEN Apply(map, GetUint16(g.r))
            ELSE IF g.v = FormatMap32 THEN Apply(map, GetUint32(g.r))
            ELSE IF g.v = FormatBin8 THEN Apply(bin8, GetUint8(g.r))
            ELSE IF g.v = FormatBin16 THEN Apply(bin, GetUint16(g.r))
            ELSE IF g.v = FormatBin32 THEN Apply(bin, GetUint32(g.r))
            ELSE Ret(g.r, "nil", <<>>, ReadError("bad value for bool"))
    IN  Apply(cont, GetUint8(r))

\* the value is the extension length
parseExtLen(r, c) ==
    LET fixed(n) == Ret(r, "uint32", U32(n), NoErr)
    IN  IF c = FormatFixExt1 THEN fixed(1)
        ELSE IF c = FormatFixExt2 THEN fixed(2)
        ELSE IF c = FormatFixExt4 THEN fixed(4)
        ELSE IF c = FormatFixExt8 THEN fixed(8)
        ELSE IF c = FormatFixExt16 THEN fixed(16)
        ELSE IF c = FormatExt8
        THEN Apply(LAMBDA n : Ret(n.r, "uint32", U32OfBytes(n.v), n.e), ReadUint8(r))
        ELSE IF c = FormatExt16
        THEN Apply(LAMBDA n : Ret(n.r, "uint32", U32OfBytes(n.v), n.e), ReadUint16(r))
        ELSE IF c = FormatExt32
        THEN Apply(LAMBDA n : Ret(n.r, "uint32", U32OfBytes(n.v), n.e), ReadUint32(r))
        ELSE Ret(r, "uint32", U32(0), ReadError("msgpack: invalid code decoding ext len"))

readCode(r) ==
    LET cont(c) ==
            IF c.e # NoErr THEN Ret(c.r, "byte", 0, c.e) ELSE Ret(c.r, "byte", c.v, NoErr)
    IN  Apply(cont, GetUint8(r))

\* the value is [extID, extLen], extID as the byte that int8() reinterprets
extHeader(r, c) ==
    LET none(x) == Ret(x.r, "ext", [extID |-> 0, extLen |-> U32(0)], x.e)
        code(n, id) ==
            IF id.e # NoErr THEN none(id)
            ELSE Ret(id.r, "ext", [extID |-> id.v, extLen |-> n.v], NoErr)
        cont(n) ==
            IF n.e # NoErr THEN none(n)
            ELSE Apply(LAMBDA id : code(n, id), readCode(n.r))
    IN  Apply(cont, parseExtLen(r, c))

\* the value is the pair of arguments of time.Unix, two int64 words
timeUnix(sec, nsec) == sec \o nsec

\* sec & 0x00000003ffffffff of a uint64 word
maskLow34(b) == <<0, 0, 0, b[4] % 4, b[5], b[6], b[7], b[8]>>

decodeTime(r, extLen) ==
    LET cont(b) ==
            IF b.e # NoErr THEN Ret(b.r, "time.Time", <<>>, b.e)
            ELSE IF Len(b.v) = 4
            THEN Ret(b.r, "time.Unix", timeUnix(ZeroExt(b.v), I64(0)), NoErr)
            ELSE IF Len(b.v) = 8
            THEN Ret(b.r, "time.Unix", timeUnix(maskLow34(b.v), shiftRight34(b.v)), NoErr)
            ELSE IF Len(b.v) = 12
            THEN Ret(b.r, "time.Unix",
                     timeUnix(SubSeq(b.v, 5, 12), ZeroExt(SubSeq(b.v, 1, 4))), NoErr)
            ELSE Ret(b.r, "time.Time", <<>>,
                     <<"ReadError", "msgpack: invalid time ext len", extLen>>)
    IN  Apply(cont, GetBytes(r, extLen))

\* an RFC 3339 timestamp has at least 20 characters
MinRFC3339 == 20

\* parses is the verdict of time.Parse(time.RFC3339Nano, str) on the string
\* read; the parsed instant is not computed and the value keeps the string
ReadTime(r, parses) ==
    LET none(c, e) == Ret(c, "time.Time", <<>>, e)
        parsed(str) ==
            IF str.e # NoErr THEN none(str.r, str.e)
            ELSE IF parses /\ Len(str.v) >= MinRFC3339
            THEN Ret(str.r, "time.Parse", str.v, NoErr)
            ELSE none(str.r, <<"time.ParseError">>)
        ext(h) ==
            IF h.e # NoErr THEN none(h.r, h.e)
            ELSE IF h.v.extID # 255 /\ h.v.extID # 13
            THEN none(h.r, <<"ReadError", "msgpack: invalid time ext id", h.v.extID>>)
            ELSE decodeTime(h.r, h.v.extLen)
        cont(p) ==
            IF p.e # NoErr THEN none(p.r, p.e)
            ELSE IF isString(p.v) THEN Apply(parsed, ReadString(p.r))
            ELSE Apply(LAMBDA d : Apply(ext, extHeader(d.r, p.v)), Discard(p.r, U32(1)))
    IN  Apply(cont, PeekUint8(r))

\* the body shared by the ReadNillable methods: nil, err when IsNextNil
\* reports nil or fails, else ReadX, whose value is returned on success only
nillable(r, ReadX(_)) ==
    LET val(x) ==
            IF x.e # NoErr THEN Ret(x.r, "nil", <<>>, x.e) ELSE Ret(x.r, x.k, x.v, x.e)
        cont(n) ==
            IF n.v = <<1>> \/ n.e # NoErr THEN Ret(n.r, "nil", <<>>, n.e)
            ELSE Apply(val, ReadX(n.r))
    IN  Apply(cont, IsNextNil(r))

ReadNillableBool(r) == nillable(r, ReadBool)
ReadNillableInt8(r) == nillable(r, ReadInt8)
ReadNillableInt16(r) == nillable(r, ReadInt16)
ReadNillableInt32(r) == nillable(r, ReadInt32)
ReadNillableInt64(r) == nillable(r, ReadInt64)
ReadNillableUint8(r) == nillable(r, ReadUint8)
ReadNillableUint16(r) == nillable(r, ReadUint16)
ReadNillableUint32(r) == nillable(r, ReadUint32)
ReadNillableUint64(r) == nillable(r, ReadUint64)
ReadNillableFloat32(r) == nillable(r, ReadFloat32)
ReadNillableFloat64(r) == nillable(r, ReadFloat64)
ReadNillableString(r) == nillable(r, ReadString)
ReadNillableTime(r, parses) == nillable(r, LAMBDA d : ReadTime(d, parses))

\* the value of ReadByteArray is returned as it is, error or not
ReadNillableByteArray(r) ==
    LET cont(n) ==
            IF n.v = <<1>> \/ n.e # NoErr THEN Ret(n.r, "nil", <<>>, n.e)
            ELSE ReadByteArray(n.r)
    IN  Apply(cont, IsNextNil(r))

-----------------------------------------------------------------------------
(* The Writer interface: a call is [op, arg]; the same call is dispatched  *)
(* to the Sizer and to the Encoder.  A bool argument is <<1>> or <<0>>.    *)

SizerCall(s, c) ==
    CASE c.op = "WriteNil" -> SizerWriteNil(s)
      [] c.op = "WriteBool" -> SizerWriteBool(s, c.arg[1] = 1)
      [] c.op = "WriteInt8" -> SizerWriteInt8(s, c.arg)
      [] c.op = "WriteInt16" -> SizerWriteInt16(s, c.arg)
      [] c.op = "WriteInt32" -> SizerWriteInt32(s, c.arg)
      [] c.op = "WriteInt64" -> SizerWriteInt64(s, c.arg)
      [] c.op = "WriteUint8" -> SizerWriteUint8(s, c.arg)
      [] c.op = "WriteUint16" -> SizerWriteUint16(s, c.arg)
      [] c.op = "WriteUint32" -> SizerWriteUint32(s, c.arg)
      [] c.op = "WriteUint64" -> SizerWriteUint64(s, c.arg)
      [] c.op = "WriteFloat32" -> SizerWriteFloat32(s, c.arg)
      [] c.op = "WriteFloat64" -> SizerWriteFloat64(s, c.arg)
      [] c.op = "WriteString" -> SizerWriteString(s, c.arg)
      [] c.op = "WriteByteArray" -> SizerWriteByteArray(s, c.arg)
      [] c.op = "WriteArraySize" -> SizerWriteArraySize(s, c.arg)
      [] c.op = "WriteMapSize" -> SizerWriteMapSize(s, c.arg)

EncoderCall(r, c) ==
    CASE c.op = "WriteNil" -> EncoderWriteNil(r)
      [] c.op = "WriteBool" -> EncoderWriteBool(r, c.arg[1] = 1)
      [] c.op = "WriteInt8" -> EncoderWriteInt8(r, c.arg)
      [] c.op = "WriteInt16" -> EncoderWriteInt16(r, c.arg)
      [] c.op = "WriteInt32" -> EncoderWriteInt32(r, c.arg)
      [] c.op = "WriteInt64" -> EncoderWriteInt64(r, c.arg)
      [] c.op = "WriteUint8" -> EncoderWriteUint8(r, c.arg)
      [] c.op = "WriteUint16" -> EncoderWriteUint16(r, c.arg)
      [] c.op = "WriteUint32" -> EncoderWriteUint32(r, c.arg)
      [] c.op = "WriteUint64" -> EncoderWriteUint64(r, c.arg)
      [] c.op = "WriteFloat32" -> EncoderWriteFloat32(r, c.arg)
      [] c.op = "WriteFloat64" -> EncoderWriteFloat64(r, c.arg)
      [] c.op = "WriteString" -> EncoderWriteString(r, c.arg)
      [] c.op = "WriteByteArray" -> EncoderWriteByteArray(r, c.arg)
      [] c.op = "WriteArraySize" -> EncoderWriteArraySize(r, c.arg)
      [] c.op = "WriteMapSize" -> EncoderWriteMapSize(r, c.arg)

(* Arguments of the calls: the values on both sides of every width boundary *)

\* the Reader call c applied to the Decoder r; Skip returns no value
DecoderCall(r, c) ==
    CASE c.op = "ReadBool" -> ReadBool(r)
      [] c.op = "ReadInt8" -> ReadInt8(r)
      [] c.op = "ReadInt16" -> ReadInt16(r)
      [] c.op = "ReadInt32" -> ReadInt32(r)
      [] c.op = "ReadInt64" -> ReadInt64(r)
      [] c.op = "ReadUint8" -> ReadUint8(r)
      [] c.op = "ReadUint16" -> ReadUint16(r)
      [] c.op = "ReadUint32" -> ReadUint32(r)
      [] c.op = "ReadUint64" -> ReadUint64(r)
      [] c.op = "ReadFloat32" -> ReadFloat32(r)
      [] c.op = "ReadFloat64" -> ReadFloat64(r)
      [] c.op = "ReadString" -> ReadString(r)
      [] c.op = "ReadByteArray" -> ReadByteArray(r)
      [] c.op = "ReadTime" -> ReadTime(r, c.arg[1] = 1)
      [] c.op = "ReadArraySize" -> ReadArraySize(r)
      [] c.op = "ReadMapSize" -> ReadMapSize(r)
      [] c.op = "ReadAny" -> ReadAny(r)
      [] c.op = "ReadRaw" -> ReadRaw(r)
      [] c.op = "IsNextNil" -> IsNextNil(r)
      [] c.op = "Skip" -> LET k == Skip(r) IN Ret(k.r, "none", <<>>, k.e)
      [] c.op = "ReadNillableBool" -> ReadNillableBool(r)
      [] c.op = "ReadNillableInt8" -> ReadNillableInt8(r)
      [] c.op = "ReadNillableInt16" -> ReadNillableInt16(r)
      [] c.op = "ReadNillableInt32" -> ReadNillableInt32(r)
      [] c.op = "ReadNillableInt64" -> ReadNillableInt64(r)
      [] c.op = "ReadNillableUint8" -> ReadNillableUint8(r)
      [] c.op = "ReadNillableUint16" -> ReadNillableUint16(r)
      [] c.op = "ReadNillableUint32" -> ReadNillableUint32(r)
      [] c.op = "ReadNillableUint64" -> ReadNillableUint64(r)
      [] c.op = "ReadNillableFloat32" -> ReadNillableFloat32(r)
      [] c.op = "ReadNillableFloat64" -> ReadNillableFloat64(r)
      [] c.op = "ReadNillableString" -> ReadNillableString(r)
      [] c.op = "ReadNillableByteArray" -> ReadNillableByteArray(r)
      [] c.op = "ReadNillableTime" -> ReadNillableTime(r, c.arg[1] = 1)

Two31W == <<0, 0, 0, 0, 128, 0, 0, 0>>
BelowMinInt32W == <<255, 255, 255, 255, 127, 255, 255, 255>>
Two32W == <<0, 0, 0, 1, 0, 0, 0, 0>>

Int8Args == {<<127>>, <<128>>, <<224>>}
Int16Args == {<<0, 128>>, <<255, 127>>}
Int32Args == {<<0, 0, 128, 0>>, <<128, 0, 0, 0>>}
Int64Args ==
    {I64(127), I64(128), I64(-32), I64(-33), I64(-129), I64(32768),
     Two31W, BelowMinInt32W, MaxInt64W, MinInt64W}
Uint8Args == {<<128>>}
Uint16Args == {<<1, 0>>}
Uint32Args == {<<0, 1, 0, 0>>}
Uint64Args == {I64(127), I64(128), I64(256), I64(65536), Two32W, MaxUint64W}
Float32Args == {<<63, 128, 0, 0>>}
Float64Args == {<<63, 240, 0, 0, 0, 0, 0, 0>>}
StringArgs == {Rep(n, 97) : n \in {0, 31, 32, 255, MaxPayload}}
ByteArrayArgs == {Rep(n, 7) : n \in {0, 1, 254, 255, MaxPayload}}
SizeArgs == {U32(15), U32(16), U32(65535), U32(65536), <<65535, 65535>>}

Call(op, arg) == [op |-> op, arg |-> arg]

WriterCalls ==
    {Call("WriteNil", <<>>)}
    \cup {Call("WriteBool", b) : b \in {<<0>>, <<1>>}}
    \cup {Call("WriteInt8", v) : v \in Int8Args}
    \cup {Call("WriteInt16", v) : v \in Int16Args}
    \cup {Call("WriteInt32", v) : v \in Int32Args}
    \cup {Call("WriteInt64", v) : v \in Int64Args}
    \cup {Call("WriteUint8", v) : v \in Uint8Args}
    \cup {Call("WriteUint16", v) : v \in Uint16Args}
    \cup {Call("WriteUint32", v) : v \in Uint32Args}
    \cup {Call("WriteUint64", v) : v \in Uint64Args}
    \cup {Call("WriteFloat32", v) : v \in Float32Args}
    \cup {Call("WriteFloat64", v) : v \in Float64Args}
    \cup {Call("WriteString", v) : v \in StringArgs}
    \cup {Call("WriteByteArray", v) : v \in ByteArrayArgs}
    \cup {Call("WriteArraySize", v) : v \in SizeArgs}
    \cup {Call("WriteMapSize", v) : v \in SizeArgs}

NoCall == Call("none", <<>>)

\* no result: the last operation was not a read
NoRes == [k |-> "none", v |-> <<>>, e |-> NoErr]

\* the cursor of the state
Cursor == [buffer |-> buffer, byteOffset |-> byteOffset, err |-> err]

\* the state's cursor becomes r
SetCursor(r) ==
    /\ buffer' = r.buffer
    /\ byteOffset' = r.byteOffset
    /\ err' = r.err

-----------------------------------------------------------------------------
(* convert: the helpers applied to the two results of a ReadNillable call. *)
(* A pointer is <<>> when nil and <<x>> when it points to x; a helper      *)
(* returns [v, e], its pointer and its error, and e is Panic when it       *)
(* dereferences a nil pointer.                                             *)

\* fn is the parser, which returns [v, e]
NillableParse(fn(_), value, decodeErr) ==
    LET cont(p) == IF p.e # NoErr THEN [v |-> <<>>, e |-> p.e] ELSE [v |-> <<p.v>>, e |-> NoErr]
    IN  IF decodeErr # NoErr \/ value = <<>> THEN [v |-> <<>>, e |-> decodeErr]
        ELSE Apply(cont, fn(value[1]))

\* parses is the verdict of time.Parse, which returns the zero Time, here
\* <<>>, with its error; the pointer returned is then not nil
StringToTimePtr(value, e, parses) ==
    IF value = <<>> \/ e # NoErr THEN [v |-> <<>>, e |-> e]
    ELSE IF parses /\ Len(value[1]) >= MinRFC3339 THEN [v |-> <<value[1]>>, e |-> NoErr]
    ELSE [v |-> <<<<>>>>, e |-> <<"time.ParseError">>]

\* T(*value) of a string keeps its bytes
NillableString(value, e) ==
    IF value = <<>> THEN [v |-> <<>>, e |-> Panic] ELSE [v |-> <<value[1]>>, e |-> e]

\* T(*value) of a bool keeps its value
NillableBool(value, e) ==
    IF value = <<>> THEN [v |-> <<>>, e |-> Panic] ELSE [v |-> <<value[1]>>, e |-> e]

\* T(*value) of an int64 for a signed integer type T of width bytes keeps
\* the low bytes
NillableNumeric(width, value, e) ==
    IF value = <<>> THEN [v |-> <<>>, e |-> Panic]
    ELSE [v |-> <<SignExt(Low(value[1], width))>>, e |-> e]

-----------------------------------------------------------------------------
(* SpecLockstep: one sequence of Writer calls applied to a fresh Sizer and *)
(* to an Encoder over a buffer large enough for all of it.                 *)

\* a buffer that holds MaxCalls values of any call: payload and 5-byte header
LargeEnough == MaxCalls * (MaxPayload + 5)

InitLockstep ==
    /\ length = NewSizer
    /\ buffer = Rep(LargeEnough, 0)
    /\ byteOffset = 0
    /\ err = NoErr
    /\ pc = "write"
    /\ calls = <<>>
    /\ last = [call |-> NoCall, start |-> 0, slen |-> 0, n |-> 0, res |-> NoRes]

Both(c) ==
    /\ pc = "write"
    /\ length' = SizerCall(length, c)
    /\ SetCursor(EncoderCall(Cursor, c))
    /\ calls' = Append(calls, c)
    /\ last' = [call |-> c, start |-> byteOffset, slen |-> length,
                n |-> Len(calls) + 1, res |-> NoRes]
    /\ pc' = pc

WriteNil ==
    /\ Len(calls) < MaxCalls
    /\ Both(Call("WriteNil", <<>>))
WriteBool ==
    \E b \in {<<0>>, <<1>>} :
        /\ Len(calls) < MaxCalls
        /\ Both(Call("WriteBool", b))
WriteInt8 ==
    \E v \in Int8Args :
        /\ Len(calls) < MaxCalls
        /\ Both(Call("WriteInt8", v))
WriteInt16 ==
    \E v \in Int16Args :
        /\ Len(calls) < MaxCalls
        /\ Both(Call("WriteInt16", v))
WriteInt32 ==
    \E v \in Int32Args :
        /\ Len(calls) < MaxCalls
        /\ Both(Call("WriteInt32", v))
WriteInt64 ==
    \E v \in Int64Args :
        /\ Len(calls) < MaxCalls
        /\ Both(Call("WriteInt64", v))
WriteUint8 ==
    \E v \in Uint8Args :
        /\ Len(calls) < MaxCalls
        /\ Both(Call("WriteUint8", v))
WriteUint16 ==
    \E v \in Uint16Args :
        /\ Len(calls) < MaxCalls
        /\ Both(Call("WriteUint16", v))
WriteUint32 ==
    \E v \in Uint32Args :
        /\ Len(calls) < MaxCalls
        /\ Both(Call("WriteUint32", v))
WriteUint64 ==
    \E v \in Uint64Args :
        /\ Len(calls) < MaxCalls
        /\ Both(Call("WriteUint64", v))
WriteFloat32 ==
    \E v \in Float32Args :
        /\ Len(calls) < MaxCalls
        /\ Both(Call("WriteFloat32", v))
WriteFloat64 ==
    \E v \in Float64Args :
        /\ Len(calls) < MaxCalls
        /\ Both(Call("WriteFloat64", v))
WriteString ==
    \E v \in StringArgs :
        /\ Len(calls) < MaxCalls
        /\ Both(Call("WriteString", v))
WriteByteArray ==
    \E v \in ByteArrayArgs :
        /\ Len(calls) < MaxCalls
        /\ Both(Call("WriteByteArray", v))
WriteArraySize ==
    \E v \in SizeArgs :
        /\ Len(calls) < MaxCalls
        /\ Both(Call("WriteArraySize", v))
WriteMapSize ==
    \E v \in SizeArgs :
        /\ Len(calls) < MaxCalls
        /\ Both(Call("WriteMapSize", v))

NextLockstep ==
    \/ WriteNil
    \/ WriteBool
    \/ WriteInt8
    \/ WriteInt16
    \/ WriteInt32
    \/ WriteInt64
    \/ WriteUint8
    \/ WriteUint16
    \/ WriteUint32
    \/ WriteUint64
    \/ WriteFloat32
    \/ WriteFloat64
    \/ WriteString
    \/ WriteByteArray
    \/ WriteArraySize
    \/ WriteMapSize

SpecLockstep == InitLockstep /\ [][NextLockstep]_vars

\* the bytes the last call wrote
Written == SubSeq(buffer, last.start + 1, byteOffset)

\* the bytes the last call added to the Sizer
Counted == length - last.slen

-----------------------------------------------------------------------------
(* SpecToBytes: ToBytes(codec).  codec.Encode issues a sequence of Writer  *)
(* calls and returns nil; it issues the same calls on the Sizer and on the *)
(* Encoder.  last.n counts the calls replayed on the Encoder.              *)

InitToBytes ==
    /\ length = NewSizer
    /\ buffer = <<>>
    /\ byteOffset = 0
    /\ err = NoErr
    /\ pc = "sizer"
    /\ calls = <<>>
    /\ last = [call |-> NoCall, start |-> 0, slen |-> 0, n |-> 0, res |-> NoRes]

\* codec.Encode(&sizer) issues one more call
EncodeOnSizer ==
    \E c \in WriterCalls :
        /\ pc = "sizer"
        /\ Len(calls) < MaxCalls
        /\ length' = SizerCall(length, c)
        /\ calls' = Append(calls, c)
        /\ last' = [call |-> c, start |-> 0, slen |-> length, n |-> 0, res |-> NoRes]
        /\ UNCHANGED <<buffer, byteOffset, err, pc>>

\* buffer := make([]byte, sizer.Len()); encoder := NewEncoder(buffer)
Allocate ==
    /\ pc = "sizer"
    /\ SetCursor(NewEncoder(Rep(length, 0)))
    /\ pc' = "encoder"
    /\ last' = [call |-> NoCall, start |-> 0, slen |-> length, n |-> 0, res |-> NoRes]
    /\ UNCHANGED <<length, calls>>

\* codec.Encode(&encoder) issues its next call
EncodeOnEncoder ==
    /\ pc = "encoder"
    /\ last.n < Len(calls)
    /\ SetCursor(EncoderCall(Cursor, calls[last.n + 1]))
    /\ last' = [call |-> calls[last.n + 1], start |-> byteOffset, slen |-> length,
                n |-> last.n + 1, res |-> NoRes]
    /\ UNCHANGED <<length, calls, pc>>

\* return buffer, nil
Return ==
    /\ pc = "encoder"
    /\ last.n = Len(calls)
    /\ pc' = "done"
    /\ UNCHANGED <<buffer, byteOffset, err, length, calls, last>>

NextToBytes ==
    \/ EncodeOnSizer
    \/ Allocate
    \/ EncodeOnEncoder
    \/ Return

SpecToBytes == InitToBytes /\ [][NextToBytes]_vars

-----------------------------------------------------------------------------
(* Properties of the write side.                                           *)

\* C1 (SpecLockstep): after every Writer call issued to a Sizer and to an
\* Encoder over a large enough buffer, the Encoder's offset equals the
\* Sizer's Len().
C1_Lockstep == pc = "write" => byteOffset = length

\* C7 (SpecLockstep): WriteByteArray of an empty array writes the two bytes
\* c4 00 of a zero-length bin 8, never the nil byte, and the Sizer counts
\* the same two bytes.
C7_EmptyByteArray ==
    (last.call.op = "WriteByteArray" /\ Len(last.call.arg) = 0)
        => (Written = <<FormatBin8, 0>> /\ Counted = 2)

\* C2 (SpecToBytes): when ToBytes returns, the Encoder's offset equals the
\* length of the buffer allocated from the Sizer's count.
C2_LengthExact == pc = "done" => byteOffset = Len(buffer)

\* C3 (SpecToBytes): an Encoder over a buffer of exactly Sizer.Len() bytes
\* never latches the range error: for the same calls the Sizer's count is at
\* least the number of bytes the Encoder writes.
C3_NoRangeError ==
    pc \in {"encoder", "done"} =>
        /\ err = NoErr
        /\ byteOffset <= length
        /\ Len(buffer) = length

\* C3, its case: ToBytes returned after the Encoder filled the buffer to its
\* last byte with a payload and a second value
C3_Witness ==
    /\ pc = "done"
    /\ Len(calls) = MaxCalls
    /\ byteOffset = Len(buffer)
    /\ \E i \in 1..Len(calls) :
           calls[i].op \in {"WriteString", "WriteByteArray"} /\ Len(calls[i].arg) >= 255

-----------------------------------------------------------------------------
(* SpecRoundTrip: one integer written by ToBytes through one of the eight  *)
(* integer methods of the Encoder, then read back by the matching method   *)
(* of a Decoder over the bytes returned.                                   *)

\* int64 and uint64 words around every change of width
SmallVals == {0, 1, 31, 32, 127, 128, 255, 256, 32767, 32768, 65535, 65536}

Int64Vals ==
    {I64(n) : n \in SmallVals} \cup
    {I64(-n) : n \in {1, 31, 32, 33, 127, 128, 129, 32767, 32768, 32769}} \cup
    {MaxInt32W, Two31W, MaxUint32W, Two32W, MaxInt64W,
     MinInt32W, BelowMinInt32W, MinInt64W}

Uint64Vals ==
    {I64(n) : n \in SmallVals} \cup
    {MaxInt32W, Two31W, MaxUint32W, Two32W, MaxInt64W, MinInt64W, MaxUint64W}

IntegerCalls ==
    {Call("WriteInt8", <<b>>) : b \in Byte} \cup
    {Call("WriteUint8", <<b>>) : b \in Byte} \cup
    {Call("WriteInt16", Low(v, 2)) : v \in Int64Vals} \cup
    {Call("WriteUint16", Low(v, 2)) : v \in Uint64Vals} \cup
    {Call("WriteInt32", Low(v, 4)) : v \in Int64Vals} \cup
    {Call("WriteUint32", Low(v, 4)) : v \in Uint64Vals} \cup
    {Call("WriteInt64", v) : v \in Int64Vals} \cup
    {Call("WriteUint64", v) : v \in Uint64Vals}

\* the Reader method that reads what the Writer method op wrote
ReadOf(op) ==
    CASE op = "WriteInt8" -> "ReadInt8"
      [] op = "WriteInt16" -> "ReadInt16"
      [] op = "WriteInt32" -> "ReadInt32"
      [] op = "WriteInt64" -> "ReadInt64"
      [] op = "WriteUint8" -> "ReadUint8"
      [] op = "WriteUint16" -> "ReadUint16"
      [] op = "WriteUint32" -> "ReadUint32"
      [] op = "WriteUint64" -> "ReadUint64"

InitRoundTrip ==
    /\ length = NewSizer
    /\ buffer = <<>>
    /\ byteOffset = 0
    /\ err = NoErr
    /\ pc = "start"
    /\ calls = <<>>
    /\ last = [call |-> NoCall, start |-> 0, slen |-> 0, n |-> 0, res |-> NoRes]

\* ToBytes of a codec whose Encode issues the one call c
EncodeInteger ==
    \E c \in IntegerCalls :
        /\ pc = "start"
        /\ length' = SizerCall(NewSizer, c)
        /\ SetCursor(EncoderCall(NewEncoder(Rep(SizerCall(NewSizer, c), 0)), c))
        /\ calls' = <<c>>
        /\ last' = [call |-> c, start |-> 0, slen |-> 0, n |-> 1, res |-> NoRes]
        /\ pc' = "encoded"

\* the matching read of a new Decoder over the bytes ToBytes returned
DecodeInteger ==
    /\ pc = "encoded"
    /\ \E x \in {DecoderCall(NewDecoder(buffer), Call(ReadOf(last.call.op), <<>>))} :
           /\ SetCursor(x.r)
           /\ last' = [last EXCEPT !.res = [k |-> x.k, v |-> x.v, e |-> x.e]]
    /\ pc' = "decoded"
    /\ UNCHANGED <<length, calls>>

NextRoundTrip ==
    \/ EncodeInteger
    \/ DecodeInteger

SpecRoundTrip == InitRoundTrip /\ [][NextRoundTrip]_vars

\* C5 (SpecRoundTrip): the integer read back by ReadIntN / ReadUintN from
\* the bytes WriteIntN / WriteUintN wrote is the integer written, with no
\* error, and the read consumes exactly the bytes written (N = 8..64).
C5_RoundTrip ==
    pc = "decoded" =>
        /\ last.res.e = NoErr
        /\ last.res.v = last.call.arg
        /\ byteOffset = Len(buffer)
        /\ err = NoErr

\* C5, its case: WriteInt64(-33) was written as d0 df and read back
C5_Witness ==
    /\ pc = "decoded"
    /\ last.call = Call("WriteInt64", I64(-33))
    /\ buffer = <<FormatInt8, 223>>
    /\ last.res.v = I64(-33)

\* the value of the call c as a 64-bit word
Widened(c) ==
    IF c.op \in {"WriteInt8", "WriteInt16", "WriteInt32", "WriteInt64"}
    THEN SignExt(c.arg) ELSE ZeroExt(c.arg)

\* the encodings of the int64 / uint64 word w in the signed families: a
\* fixint or the tag of intN followed by N bits that sign-extend to w
SignedEncodings(w) ==
    {<<b>> : b \in {b \in Byte : (b < 128 \/ b >= 224) /\ SignExt(<<b>>) = w}} \cup
    {<<t[1]>> \o Low(w, t[2]) :
        t \in {t \in {<<FormatInt8, 1>>, <<FormatInt16, 2>>, <<FormatInt32, 4>>,
                      <<FormatInt64, 8>>} : SignExt(Low(w, t[2])) = w}}

\* the encodings of w in the unsigned families: a positive fixint or the
\* tag of uintN followed by N bits that zero-extend to w
UnsignedEncodings(w) ==
    {<<b>> : b \in {b \in Byte : b < 128 /\ ZeroExt(<<b>>) = w}} \cup
    {<<t[1]>> \o Low(w, t[2]) :
        t \in {t \in {<<FormatUint8, 1>>, <<FormatUint16, 2>>, <<FormatUint32, 4>>,
                      <<FormatUint64, 8>>} : ZeroExt(Low(w, t[2])) = w}}

\* every MessagePack integer encoding of the value of the call c: the other
\* signedness represents it only when its top bit is clear
IntegerEncodings(c) ==
    LET w == Widened(c)
        signed == c.op \in {"WriteInt8", "WriteInt16", "WriteInt32", "WriteInt64"}
    IN  IF w[1] < 128 THEN SignedEncodings(w) \cup UnsignedEncodings(w)
        ELSE IF signed THEN SignedEncodings(w) ELSE UnsignedEncodings(w)

\* the encodings of the families the entry point of the call c writes
EntryEncodings(c) ==
    IF c.op \in {"WriteInt8", "WriteInt16", "WriteInt32", "WriteInt64"}
    THEN SignedEncodings(Widened(c)) ELSE UnsignedEncodings(Widened(c))

\* e is one of the encodings in S and none of S is shorter
Shortest(e, S) == e \in S /\ \A o \in S : Len(e) <= Len(o)

\* C6 as stated (SpecRoundTrip): every integer is written in the shortest
\* MessagePack integer encoding that represents it, whichever entry point
\* writes it (128 as cc 80).
C6_ShortestOfAll ==
    pc = "encoded" => Shortest(SubSeq(buffer, 1, byteOffset), IntegerEncodings(last.call))

\* C6 amended (SpecRoundTrip): every integer is written in the shortest
\* encoding of its entry point's families: fixint and int 8/16/32/64 for the
\* signed methods, positive fixint and uint 8/16/32/64 for the unsigned.
C6_ShortestOfEntry ==
    pc = "encoded" => Shortest(SubSeq(buffer, 1, byteOffset), EntryEncodings(last.call))

\* C6, its case: WriteInt64(128) was written as the three bytes d1 00 80
C6_Witness ==
    /\ pc = "encoded"
    /\ last.call = Call("WriteInt64", I64(128))
    /\ SubSeq(buffer, 1, byteOffset) = <<FormatInt16, 0, 128>>

-----------------------------------------------------------------------------
(* SpecDecode: a Decoder over a buffer, then up to MaxOps Reader calls,    *)
(* each from the offset the one before it left.  The buffer either starts  *)
(* with one complete well-formed MessagePack value, possibly followed by   *)
(* one more byte, or is one of the other byte strings below.               *)

\* one value of every family without children
Scalars ==
    {<<5>>, <<127>>, <<FormatNegativeFixInt>>, <<255>>,
     <<FormatNil>>, <<FormatFalse>>, <<FormatTrue>>,
     <<FormatFloat32, 63, 128, 0, 0>>, <<FormatFloat64, 63, 240, 0, 0, 0, 0, 0, 0>>,
     <<FormatUint8, 200>>, <<FormatUint16, 1, 0>>, <<FormatUint32, 0, 1, 0, 0>>,
     <<FormatUint64, 0, 0, 0, 1, 0, 0, 0, 0>>,
     <<FormatInt8, 128>>, <<FormatInt16, 255, 0>>, <<FormatInt32, 255, 255, 0, 0>>,
     <<FormatInt64, 255, 255, 255, 255, 0, 0, 0, 0>>,
     <<FormatFixString>>, <<163, 97, 98, 99>>, <<FormatString8, 2, 97, 98>>,
     <<FormatString16, 0, 1, 97>>, <<FormatString32, 0, 0, 0, 1, 97>>,
     <<FormatBin8, 0>>, <<FormatBin8, 2, 1, 2>>, <<FormatBin16, 0, 1, 1>>,
     <<FormatBin32, 0, 0, 0, 1, 1>>}

\* extensions: [tag][length if variable][type id][payload]; the ones of
\* 4, 8 and 12 bytes with type id -1 are timestamps
Extensions ==
    {<<FormatFixExt1, 1, 9>>, <<FormatFixExt2, 1, 9, 9>>, <<FormatFixExt2, 255, 9, 9>>,
     <<FormatFixExt4, 255, 0, 0, 0, 1>>, <<FormatFixExt4, 13, 0, 0, 0, 1>>,
     <<FormatFixExt8, 255>> \o Rep(8, 1), <<FormatFixExt16, 1>> \o Rep(16, 9),
     <<FormatExt8, 12, 255>> \o Rep(12, 0), <<FormatExt8, 3, 1, 9, 9, 9>>,
     <<FormatExt16, 0, 4, 255, 0, 0, 0, 1>>, <<FormatExt32, 0, 0, 0, 4, 255, 0, 0, 0, 1>>}

\* children of the containers below
Kids == {<<5>>, <<FormatNil>>, <<161, 97>>, <<FormatBin8, 1, 7>>, <<FormatFixExt1, 1, 9>>}

\* keys of the maps below: a string, an integer, a byte array, an array
Keys == {<<161, 97>>, <<5>>, <<FormatBin8, 1, 7>>, <<FormatFixArray>>}

Arrays ==
    {<<FormatFixArray>>, <<FormatArray16, 0, 0>>, <<FormatArray32, 0, 0, 0, 0>>}
    \cup {<<145>> \o x : x \in Kids}
    \cup {<<146>> \o x \o y : x, y \in Kids}
    \cup {<<FormatArray16, 0, 1>> \o x : x \in Kids}
    \cup {<<FormatArray32, 0, 0, 0, 1>> \o x : x \in Kids}

Maps ==
    {<<FormatFixMap>>, <<FormatMap16, 0, 0>>, <<FormatMap32, 0, 0, 0, 0>>}
    \cup {<<129>> \o k \o v : k \in Keys, v \in Kids}
    \cup {<<FormatMap16, 0, 1>> \o k \o v : k \in Keys, v \in Kids}
    \cup {<<FormatMap32, 0, 0, 0, 1>> \o k \o v : k \in Keys, v \in Kids}

\* containers of containers
Nested ==
    {<<145>> \o c : c \in {<<145>> \o x : x \in Kids}}
    \cup {<<145, 129>> \o k \o v : k \in Keys, v \in Kids}
    \cup {<<129, 5, 146>> \o x \o y : x, y \in Kids}

WellFormed == Scalars \cup Extensions \cup Arrays \cup Maps \cup Nested

\* byte strings that are no complete well-formed value: array tags before
\* string bytes, values cut short, a tag outside the format, the empty
\* buffer, 32-bit length fields that reach past the end of the buffer
Others ==
    {<<145, 193>>, <<FormatArray16, 0, 1, 193>>, <<146, 5>>, <<FormatUint8>>,
     <<FormatString8, 4, 97>>, <<FormatFloat64, 0, 0>>, <<193>>, <<>>,
     <<FormatString32, 255, 255, 255, 251, 97>>, <<FormatMap32, 128, 0, 0, 1, 5, 5>>,
     <<FormatNil, FormatString32, 255, 255, 255, 250, 97>>}

\* the Reader calls; the argument of ReadTime is the verdict of time.Parse
ReaderCalls ==
    {Call(op, <<>>) :
        op \in {"ReadBool", "ReadInt8", "ReadInt16", "ReadInt32", "ReadInt64",
                "ReadUint8", "ReadUint16", "ReadUint32", "ReadUint64",
                "ReadFloat32", "ReadFloat64", "ReadString", "ReadByteArray",
                "ReadArraySize", "ReadMapSize", "ReadAny", "ReadRaw", "IsNextNil",
                "Skip"}}
    \cup {Call("ReadTime", <<b>>) : b \in {0, 1}}

InitDecode ==
    /\ length = 0
    /\ buffer = <<>>
    /\ byteOffset = 0
    /\ err = NoErr
    /\ pc = "start"
    /\ calls = <<>>
    /\ last = [call |-> NoCall, start |-> 0, slen |-> 0, n |-> 0, res |-> NoRes]

\* NewDecoder over a well-formed value w followed by the bytes rest
NewDecoderOnValue ==
    \E w \in WellFormed, rest \in {<<>>, <<FormatNil>>} :
        /\ pc = "start"
        /\ SetCursor(NewDecoder(w \o rest))
        /\ length' = Len(w)
        /\ pc' = "decode"
        /\ UNCHANGED <<calls, last>>

\* NewDecoder over one of the other byte strings
NewDecoderOnBytes ==
    \E b \in Others :
        /\ pc = "start"
        /\ SetCursor(NewDecoder(b))
        /\ pc' = "decode"
        /\ UNCHANGED <<length, calls, last>>

\* one Reader call on the Decoder; a panic ends the program
Decode ==
    \E c \in ReaderCalls :
        /\ pc = "decode"
        /\ last.n < MaxOps
        /\ \E x \in {DecoderCall(Cursor, c)} :
               /\ SetCursor(x.r)
               /\ last' = [call |-> c, start |-> byteOffset, slen |-> 0, n |-> last.n + 1,
                           res |-> [k |-> x.k, v |-> x.v, e |-> x.e]]
               /\ pc' = IF x.e = Panic THEN "panic" ELSE pc
        /\ UNCHANGED <<length, calls>>

NextDecode ==
    \/ NewDecoderOnValue
    \/ NewDecoderOnBytes
    \/ Decode

SpecDecode == InitDecode /\ [][NextDecode]_vars

\* C4 (SpecDecode): on a buffer that holds at the cursor one complete
\* well-formed value of any family, extensions included, Skip succeeds and
\* advances the offset by exactly the bytes of that value.
C4_SkipValue ==
    (last.call.op = "Skip" /\ last.n = 1 /\ length > 0)
        => (last.res.e = NoErr /\ byteOffset = length)

\* the typed scalar reads and ReadAny
TypedReads ==
    {"ReadBool", "ReadInt64", "ReadUint64", "ReadFloat32", "ReadFloat64",
     "ReadString", "ReadByteArray", "ReadTime", "ReadAny"}

\* the Decoder as it was before the last call, which succeeded
Before == [buffer |-> buffer, byteOffset |-> last.start, err |-> NoErr]

\* C8 (SpecDecode): whenever a typed scalar read or ReadAny succeeds from
\* an offset, Skip from the same offset succeeds and ends at the same offset.
C8_PathsAgree ==
    (last.call.op \in TypedReads /\ last.res.e = NoErr)
        => \E k \in {Skip(Before)} : k.e = NoErr /\ k.r.byteOffset = byteOffset

-----------------------------------------------------------------------------
(* SpecCursor: cursor, Decoder and Encoder operations, in any order and    *)
(* with any argument, on one cursor; the operations go on after the error  *)
(* is latched.                                                             *)

MaxCursorOps == 3

\* d.err
Err(r) == r.err

CursorBuffers ==
    {<<>>, <<FormatNil>>, <<FormatUint8, 200, 5>>, <<FormatString8, 2, 97, 98, FormatTrue>>,
     <<FormatString32, 255, 255, 255, 251, 97>>}

GetOps ==
    {"GetUint8", "GetInt8", "GetInt16", "GetInt32", "GetInt64", "GetUint16",
     "GetUint32", "GetUint64", "GetFloat32", "GetFloat64"}

SetOps ==
    {"SetUint8", "SetInt8", "SetInt16", "SetInt32", "SetInt64", "SetUint16",
     "SetUint32", "SetUint64", "SetFloat32", "SetFloat64"}

CursorOps == GetOps \cup SetOps \cup {"GetBytes", "SetBytes", "PeekUint8", "Discard"}

\* the bytes a Set* call writes: its width in bytes of value 9
SetWidth(op) ==
    CASE op \in {"SetUint8", "SetInt8"} -> 1
      [] op \in {"SetInt16", "SetUint16"} -> 2
      [] op \in {"SetInt32", "SetUint32", "SetFloat32"} -> 4
      [] op \in {"SetInt64", "SetUint64", "SetFloat64"} -> 8

\* the lengths passed to GetBytes and Discard: 0, 1, 2 and 2^32 - 1
LengthArgs == {U32(0), U32(1), U32(2), <<65535, 65535>>}

CursorCalls ==
    {Call(op, <<>>) : op \in GetOps \cup {"PeekUint8"}}
    \cup {Call(op, Rep(SetWidth(op), 9)) : op \in SetOps}
    \cup {Call("SetBytes", src) : src \in {<<>>, <<7>>, <<7, 8>>}}
    \cup {Call(op, len) : op \in {"GetBytes", "Discard"}, len \in LengthArgs}

\* the cursor call c applied to the cursor r: [r, v, e]
CursorCall(r, c) ==
    LET noValue(x) == [r |-> x.r, v |-> <<>>, e |-> x.e]
        bytes(x) == [r |-> x.r, v |-> <<x.v>>, e |-> x.e]
    IN  CASE c.op = "GetUint8" -> Apply(bytes, GetUint8(r))
          [] c.op = "GetInt8" -> GetInt8(r)
          [] c.op = "GetInt16" -> GetInt16(r)
          [] c.op = "GetInt32" -> GetInt32(r)
          [] c.op = "GetInt64" -> GetInt64(r)
          [] c.op = "GetUint16" -> GetUint16(r)
          [] c.op = "GetUint32" -> GetUint32(r)
          [] c.op = "GetUint64" -> GetUint64(r)
          [] c.op = "GetFloat32" -> GetFloat32(r)
          [] c.op = "GetFloat64" -> GetFloat64(r)
          [] c.op = "SetUint8" -> Apply(noValue, SetUint8(r, c.arg[1]))
          [] c.op = "SetInt8" -> Apply(noValue, SetInt8(r, c.arg))
          [] c.op = "SetInt16" -> Apply(noValue, SetInt16(r, c.arg))
          [] c.op = "SetInt32" -> Apply(noValue, SetInt32(r, c.arg))
          [] c.op = "SetInt64" -> Apply(noValue, SetInt64(r, c.arg))
          [] c.op = "SetUint16" -> Apply(noValue, SetUint16(r, c.arg))
          [] c.op = "SetUint32" -> Apply(noValue, SetUint32(r, c.arg))
          [] c.op = "SetUint64" -> Apply(noValue, SetUint64(r, c.arg))
          [] c.op = "SetFloat32" -> Apply(noValue, SetFloat32(r, c.arg))
          [] c.op = "SetFloat64" -> Apply(noValue, SetFloat64(r, c.arg))
          [] c.op = "GetBytes" -> GetBytes(r, c.arg)
          [] c.op = "SetBytes" -> Apply(noValue, SetBytes(r, c.arg))
          [] c.op = "PeekUint8" -> Apply(bytes, PeekUint8(r))
          [] c.op = "Discard" -> Apply(noValue, Discard(r, c.arg))

\* one Writer call of each method
ShortWriterCalls ==
    {Call("WriteNil", <<>>), Call("WriteBool", <<1>>), Call("WriteInt8", <<128>>),
     Call("WriteInt16", <<255, 127>>), Call("WriteInt32", <<128, 0, 0, 0>>),
     Call("WriteInt64", MinInt64W), Call("WriteUint8", <<128>>),
     Call("WriteUint16", <<1, 0>>), Call("WriteUint32", <<0, 1, 0, 0>>),
     Call("WriteUint64", MaxUint64W), Call("WriteFloat32", <<63, 128, 0, 0>>),
     Call("WriteFloat64", <<63, 240, 0, 0, 0, 0, 0, 0>>), Call("WriteString", <<97>>),
     Call("WriteByteArray", <<>>), Call("WriteArraySize", U32(1)),
     Call("WriteMapSize", U32(16))}

InitCursor ==
    /\ buffer \in CursorBuffers
    /\ byteOffset = 0
    /\ err = NoErr
    /\ length = 0
    /\ pc = "cursor"
    /\ calls = <<>>
    /\ last = [call |-> NoCall, start |-> 0, slen |-> 0, n |-> 0, res |-> NoRes]

\* one call on the cursor; a panic ends the program
CursorOp ==
    \E c \in CursorCalls :
        /\ pc = "cursor"
        /\ last.n < MaxCursorOps
        /\ \E x \in {CursorCall(Cursor, c)} :
               /\ SetCursor(x.r)
               /\ last' = [call |-> c, start |-> byteOffset, slen |-> 0, n |-> last.n + 1,
                           res |-> [k |-> "bytes", v |-> x.v, e |-> x.e]]
               /\ pc' = IF x.e = Panic THEN "panic" ELSE pc
        /\ UNCHANGED <<length, calls>>

\* one Reader call on a Decoder that holds the cursor
DecoderOp ==
    \E c \in ReaderCalls :
        /\ pc = "cursor"
        /\ last.n < MaxCursorOps
        /\ \E x \in {DecoderCall(Cursor, c)} :
               /\ SetCursor(x.r)
               /\ last' = [call |-> c, start |-> byteOffset, slen |-> 0, n |-> last.n + 1,
                           res |-> [k |-> x.k, v |-> x.v, e |-> x.e]]
               /\ pc' = IF x.e = Panic THEN "panic" ELSE pc
        /\ UNCHANGED <<length, calls>>

\* one Writer call on an Encoder that holds the cursor; it returns nothing
EncoderOp ==
    \E c \in ShortWriterCalls :
        /\ pc = "cursor"
        /\ last.n < MaxCursorOps
        /\ \E x \in {EncoderCall(Cursor, c)} : SetCursor(x)
        /\ last' = [call |-> c, start |-> byteOffset, slen |-> 0, n |-> last.n + 1,
                    res |-> NoRes]
        /\ UNCHANGED <<length, pc, calls>>

NextCursor ==
    \/ CursorOp
    \/ DecoderOp
    \/ EncoderOp

SpecCursor == InitCursor /\ [][NextCursor]_vars

\* C9 (SpecCursor): once Err() of the cursor is non-nil, it is the same
\* error after every later cursor, Decoder or Encoder operation: no operation
\* clears or replaces it.
C9_Sticky == [][Err(Cursor) # NoErr => Err(Cursor)' = Err(Cursor)]_vars

\* an Encoder call made on the latched cursor has left the error in place:
\* WriteNil needs one byte, the cursor has one, so the error was latched
\* before the call
C9_Witness ==
    /\ Err(Cursor) = ErrRange
    /\ last.call.op = "WriteNil"
    /\ last.n = MaxCursorOps
    /\ byteOffset < Len(buffer)

\* C10 (SpecCursor): after the error is latched, every cursor operation
\* (every Get*, Set*, GetBytes, SetBytes, PeekUint8, Discard, with any
\* argument) returns the latched error and leaves the offset and every
\* buffer byte unchanged.
C10_LatchedNoEffect ==
    [][(Err(Cursor) # NoErr /\ last'.n = last.n + 1 /\ last'.call.op \in CursorOps)
          => /\ last'.res.e = Err(Cursor)
             /\ byteOffset' = byteOffset
             /\ buffer' = buffer]_vars

\* SetUint8 has returned the range error on a cursor that has a byte left:
\* the error was latched before the call, and the byte is not written
C10_Witness ==
    /\ Err(Cursor) = ErrRange
    /\ last.call.op = "SetUint8"
    /\ last.res.e = ErrRange
    /\ byteOffset < Len(buffer)
    /\ buffer[byteOffset + 1] # last.call.arg[1]

\* C11 (SpecCursor): in every reachable state the offset is at most the
\* length of the buffer, whatever the operations and their length arguments,
\* lengths decoded from the buffer included.
C11_OffsetInBuffer == byteOffset <= Len(buffer)

\* Discard(2^32 - 1) has passed the check from an offset above 0, where
\* offset + length wraps
C11_Witness ==
    /\ last.call = Call("Discard", <<65535, 65535>>)
    /\ last.start > 0
    /\ last.res.e = NoErr
    /\ byteOffset <= Len(buffer)

\* C12 (SpecDecode): the offset after a Decoder read, Skip or ReadRaw is at
\* least the offset before it, for every 32-bit length field read from the
\* buffer.
C12_NoRegress == last.n > 0 => byteOffset >= last.start

\* an error that is not the range error: bad prefix, bad value, overflow
IsTyped(e) == e[1] = "ReadError"

\* C13 as stated (SpecDecode): once a Decoder read has returned an error, a
\* range error or a typed error, every further read returns the same error
\* and does not advance the offset.
C13_FailedTerminal ==
    [][(last.n > 0 /\ last.res.e # NoErr /\ last'.n = last.n + 1)
          => (last'.res.e = last.res.e /\ byteOffset' = byteOffset)]_vars

\* C13 (SpecDecode): once a Decoder read has returned the range error, Err()
\* is non-nil and every further read returns the range error and does not
\* advance the offset.
C13_RangeErrorTerminal ==
    [][(last.n > 0 /\ last.res.e = ErrRange /\ last'.n = last.n + 1)
          => /\ Err(Cursor) = ErrRange
             /\ last'.res.e = ErrRange
             /\ byteOffset' = byteOffset]_vars

\* ReadBool has returned the range error with a byte left at the offset: the
\* error was latched by the read before it
C13_Witness ==
    /\ last.n = 2
    /\ last.call.op = "ReadBool"
    /\ last.res.e = ErrRange
    /\ byteOffset < Len(buffer)

\* C14 (SpecDecode): a read that returns a typed error on a Decoder whose
\* Err() is nil leaves Err() nil; the outcome of a read depends on the
\* buffer, the offset and Err() only, so the next read proceeds as on a new
\* Decoder at that offset.
C14_TypedDoNotLatch ==
    [][(Err(Cursor) = NoErr /\ last'.n = last.n + 1 /\ IsTyped(last'.res.e))
          => Err(Cursor)' = NoErr]_vars

\* ReadInt8 has returned the overflow error and Err() is nil
C14_Witness ==
    /\ last.call.op = "ReadInt8"
    /\ IsTyped(last.res.e)
    /\ last.res.e[2] = "integer overflow"
    /\ Err(Cursor) = NoErr

-----------------------------------------------------------------------------
(* SpecRead: one typed read on a new Decoder over a buffer that starts     *)
(* with any of the 256 tags, or over the bytes WriteInt64 wrote.           *)

\* the bytes after the tag: nothing, payloads on both sides of every width
\* boundary, payloads cut short
Payloads ==
    {<<>>, <<127>>, <<128>>, <<128, 0>>, <<255, 127>>, <<128, 0, 0, 0>>,
     <<0, 1, 0, 0>>, <<0, 0, 0, 0, 0, 0, 1>>, BelowMinInt32W, Two32W, MaxUint64W}

IntegerReads ==
    {"ReadInt8", "ReadInt16", "ReadInt32", "ReadInt64",
     "ReadUint8", "ReadUint16", "ReadUint32", "ReadUint64"}

NillableReads ==
    {"ReadNillableBool", "ReadNillableInt8", "ReadNillableInt16", "ReadNillableInt32",
     "ReadNillableInt64", "ReadNillableUint8", "ReadNillableUint16",
     "ReadNillableUint32", "ReadNillableUint64", "ReadNillableFloat32",
     "ReadNillableFloat64", "ReadNillableString", "ReadNillableByteArray"}

\* the calls of SpecRead; the argument of ReadNillableTime is the verdict of
\* time.Parse
TypedCalls ==
    {Call(op, <<>>) : op \in IntegerReads \cup NillableReads \cup {"IsNextNil"}}
    \cup {Call("ReadNillableTime", <<b>>) : b \in {0, 1}}

\* NewDecoder over a tag followed by a payload, and over the empty buffer
NewDecoderOnTag ==
    /\ pc = "start"
    /\ \E b \in {<<>>} \cup {<<t>> \o p : t \in Byte, p \in Payloads} :
           SetCursor(NewDecoder(b))
    /\ pc' = "read"
    /\ UNCHANGED <<length, calls, last>>

\* NewDecoder over the bytes that WriteInt64(v) wrote; calls remembers v
NewDecoderOnWritten ==
    /\ pc = "start"
    /\ \E v \in Int64Vals :
           /\ \E w \in {EncoderWriteInt64(NewEncoder(Rep(9, 0)), v)} :
                  SetCursor(NewDecoder(SubSeq(w.buffer, 1, w.byteOffset)))
           /\ calls' = <<Call("WriteInt64", v)>>
    /\ pc' = "read"
    /\ UNCHANGED <<length, last>>

\* the one read; a panic ends the program
Read ==
    /\ pc = "read"
    /\ last.n = 0
    /\ \E c \in TypedCalls :
           \E x \in {DecoderCall(Cursor, c)} :
               /\ SetCursor(x.r)
               /\ last' = [call |-> c, start |-> byteOffset, slen |-> 0, n |-> 1,
                           res |-> [k |-> x.k, v |-> x.v, e |-> x.e]]
               /\ pc' = IF x.e = Panic THEN "panic" ELSE pc
    /\ UNCHANGED <<length, calls>>

NextRead ==
    \/ NewDecoderOnTag
    \/ NewDecoderOnWritten
    \/ Read

SpecRead == InitDecode /\ [][NextRead]_vars

\* the tags of the format that carry a signed and an unsigned integer, and
\* the bytes of their payload
SignedTags == {FormatInt8, FormatInt16, FormatInt32, FormatInt64}

UnsignedTags == {FormatUint8, FormatUint16, FormatUint32, FormatUint64}

PayloadWidth(t) ==
    CASE t \in {FormatInt8, FormatUint8} -> 1
      [] t \in {FormatInt16, FormatUint16} -> 2
      [] t \in {FormatInt32, FormatUint32} -> 4
      [] t \in {FormatInt64, FormatUint64} -> 8

\* the payload of the integer tag at the start of the buffer lies inside it
PayloadInside == Len(buffer) >= 1 + PayloadWidth(buffer[1])

Payload == SubSeq(buffer, 2, 1 + PayloadWidth(buffer[1]))

C16_ReadUint64Accepts ==
    last.call.op = "ReadUint64" =>
        /\ IF Len(buffer) = 0 THEN last.res.e = ErrRange
           ELSE IF buffer[1] <= 127
           THEN last.res.e = NoErr /\ last.res.v = I64(buffer[1])
           ELSE IF buffer[1] >= 224 THEN last.res.e = ReadError("bad prefix for uint")
           ELSE IF buffer[1] \in SignedTags \cup UnsignedTags
           THEN IF ~PayloadInside THEN last.res.e = ErrRange
                ELSE IF buffer[1] \in SignedTags /\ Payload[1] >= 128
                THEN last.res.e = ReadError("bad prefix for uint")
                ELSE last.res.e = NoErr /\ last.res.v = ZeroExt(Payload)
           ELSE TRUE
        /\ (calls # <<>> /\ calls[1].arg[1] < 128)
               => (last.res.e = NoErr /\ last.res.v = calls[1].arg)

\* ReadUint64 has read back the 128 that WriteInt64 wrote as int16
C16_Witness ==
    /\ last.call.op = "ReadUint64"
    /\ calls = <<Call("WriteInt64", I64(128))>>
    /\ buffer = <<FormatInt16, 0, 128>>
    /\ last.res.v = I64(128)

\* the Decoder before the read of SpecRead
Fresh == NewDecoder(buffer)

\* the range of a narrow read: width in bytes and the limits as int64 words
Narrow(op) ==
    CASE op = "ReadInt8" -> [signed |-> TRUE, bytes |-> 1, lo |-> MinInt8W, hi |-> MaxInt8W]
      [] op = "ReadInt16" -> [signed |-> TRUE, bytes |-> 2, lo |-> MinInt16W, hi |-> MaxInt16W]
      [] op = "ReadInt32" -> [signed |-> TRUE, bytes |-> 4, lo |-> MinInt32W, hi |-> MaxInt32W]
      [] op = "ReadUint8" -> [signed |-> FALSE, bytes |-> 1, lo |-> I64(0), hi |-> MaxUint8W]
      [] op = "ReadUint16" -> [signed |-> FALSE, bytes |-> 2, lo |-> I64(0), hi |-> MaxUint16W]
      [] op = "ReadUint32" -> [signed |-> FALSE, bytes |-> 4, lo |-> I64(0), hi |-> MaxUint32W]

\* C17 (SpecRead): ReadInt8/16/32 and ReadUint8/16/32 return the value of
\* the underlying 64-bit read exactly when it lies in the range of the target
\* width, and otherwise an overflow error that carries that value; the error
\* of the 64-bit read is returned as it is.
C17_NarrowReads ==
    last.call.op \in IntegerReads \ {"ReadInt64", "ReadUint64"} =>
        \E w \in {Narrow(last.call.op)} :
            \E u \in {IF w.signed THEN ReadInt64(Fresh) ELSE ReadUint64(Fresh)} :
                IF u.e # NoErr THEN last.res.e = u.e
                ELSE IF w.signed /\ SLe(w.lo, u.v) /\ SLe(u.v, w.hi)
                THEN last.res.e = NoErr /\ SignExt(last.res.v) = u.v
                ELSE IF ~w.signed /\ ULe(u.v, w.hi)
                THEN last.res.e = NoErr /\ ZeroExt(last.res.v) = u.v
                ELSE last.res.e = OverflowError(u.v, 8 * w.bytes)

\* ReadUint16 has met 65536 and returned the overflow error that carries it
C17_Witness ==
    /\ last.call.op = "ReadUint16"
    /\ buffer = <<FormatUint32, 0, 1, 0, 0>>
    /\ last.res.e = OverflowError(I64(65536), 16)

\* C18 (SpecRead): the offset after IsNextNil equals the offset before it,
\* whatever the next byte is.
C18_IsNextNilPeeks == last.call.op = "IsNextNil" => byteOffset = last.start

\* the ReadX behind ReadNillableX
BaseOf(op) ==
    CASE op = "ReadNillableBool" -> "ReadBool"
      [] op = "ReadNillableInt8" -> "ReadInt8"
      [] op = "ReadNillableInt16" -> "ReadInt16"
      [] op = "ReadNillableInt32" -> "ReadInt32"
      [] op = "ReadNillableInt64" -> "ReadInt64"
      [] op = "ReadNillableUint8" -> "ReadUint8"
      [] op = "ReadNillableUint16" -> "ReadUint16"
      [] op = "ReadNillableUint32" -> "ReadUint32"
      [] op = "ReadNillableUint64" -> "ReadUint64"
      [] op = "ReadNillableFloat32" -> "ReadFloat32"
      [] op = "ReadNillableFloat64" -> "ReadFloat64"
      [] op = "ReadNillableString" -> "ReadString"
      [] op = "ReadNillableByteArray" -> "ReadByteArray"
      [] op = "ReadNillableTime" -> "ReadTime"

\* C19 (SpecRead): on a Decoder whose Err() is nil, ReadNillableX consumes
\* exactly the nil tag at the cursor and returns absent with no error;
\* otherwise it returns the error of ReadX from the same offset, its value
\* when that error is nil, and ends at the offset where ReadX ends.
C19_Nillable ==
    last.call.op \in NillableReads \cup {"ReadNillableTime"} =>
        IF Len(buffer) > 0 /\ buffer[1] = FormatNil
        THEN byteOffset = 1 /\ last.res.k = "nil" /\ last.res.e = NoErr
        ELSE \E x \in {DecoderCall(Fresh, Call(BaseOf(last.call.op), last.call.arg))} :
                 /\ last.res.e = x.e
                 /\ byteOffset = x.r.byteOffset
                 /\ x.e = NoErr => (last.res.k = x.k /\ last.res.v = x.v)

\* ReadNillableInt16 has returned absent for a nil that other bytes follow
C19_Witness ==
    /\ last.call.op = "ReadNillableInt16"
    /\ buffer = <<FormatNil, 128, 0>>
    /\ last.res.k = "nil"
    /\ last.res.e = NoErr
    /\ byteOffset = 1

\* the header of the extension value at the start of the buffer, as the
\* format lays it out: the payload length and the byte of the type id
ExtTags ==
    {FormatFixExt1, FormatFixExt2, FormatFixExt4, FormatFixExt8, FormatFixExt16,
     FormatExt8, FormatExt16, FormatExt32}

ExtLenOf(b) ==
    CASE b[1] = FormatFixExt1 -> 1
      [] b[1] = FormatFixExt2 -> 2
      [] b[1] = FormatFixExt4 -> 4
      [] b[1] = FormatFixExt8 -> 8
      [] b[1] = FormatFixExt16 -> 16
      [] b[1] = FormatExt8 -> b[2]
      [] b[1] = FormatExt16 -> b[2] * 256 + b[3]
      [] b[1] = FormatExt32 -> b[4] * 256 + b[5]

ExtIdOf(b) ==
    CASE b[1] = FormatExt8 -> b[3]
      [] b[1] = FormatExt16 -> b[4]
      [] b[1] = FormatExt32 -> b[6]
      [] OTHER -> b[2]

\* C20 (SpecDecode): ReadTime on a complete extension value decodes the
\* instant when the type id is -1 or 13 and the payload has 4, 8 or 12
\* bytes, whichever header form carries the length; another id gives the
\* invalid-time-ext-id error, another length the invalid-time-ext-len error.
C20_ReadTimeExt ==
    (last.call.op = "ReadTime" /\ last.n = 1 /\ length > 0 /\ buffer[1] \in ExtTags)
        => IF ExtIdOf(buffer) \notin {255, 13}
           THEN last.res.e = <<"ReadError", "msgpack: invalid time ext id", ExtIdOf(buffer)>>
           ELSE IF ExtLenOf(buffer) \notin {4, 8, 12}
           THEN last.res.e
                    = <<"ReadError", "msgpack: invalid time ext len", U32(ExtLenOf(buffer))>>
           ELSE last.res.e = NoErr /\ last.res.k = "time.Unix"

\* C21 (SpecDecode): whenever ReadRaw succeeds, the Raw it returns is the
\* byte range from the offset before the call to the offset after it, the
\* first not after the second, and holds exactly one complete value: Skip on
\* a fresh Decoder over those bytes succeeds and consumes all of them.
C21_RawIsOneValue ==
    (last.call.op = "ReadRaw" /\ last.res.e = NoErr)
        => /\ last.start <= byteOffset
           /\ last.res.v = SubSeq(buffer, last.start + 1, byteOffset)
           /\ \E k \in {Skip(NewDecoder(last.res.v))} :
                  k.e = NoErr /\ k.r.byteOffset = Len(last.res.v)

\* C23 (SpecDecode): Skip on a value whose tag is ext 8, ext 16 or ext 32
\* returns no error and drops, like a typed-integer tag, a fixed number of 1
\* to 8 bytes after the tag; Skip reports bad prefix only on the tag 0xc1,
\* the one outside the format.
C23_SkipVariableExt ==
    last.call.op = "Skip"
        => /\ (last.n = 1 /\ length > 0
                   /\ buffer[1] \in {FormatExt8, FormatExt16, FormatExt32})
                  => (last.res.e = NoErr /\ byteOffset - 1 \in 1..8)
           /\ last.res.e = ReadError("bad prefix")
                  => (\E i \in 1..Len(buffer) : buffer[i] = 193)

\* the header of the container at the start of the buffer, as the format
\* lays it out: its width in bytes, the count it declares, as a uint32, and
\* the values each counted entry holds, 2 for the pairs of a map
IsContainer(b) ==
    /\ Len(b) >= 1
    /\ \/ isFixedArray(b[1]) \/ isFixedMap(b[1])
       \/ (b[1] \in {FormatArray16, FormatMap16} /\ Len(b) >= 3)
       \/ (b[1] \in {FormatArray32, FormatMap32} /\ Len(b) >= 5)

HeaderWidth(b) ==
    IF b[1] \in {FormatArray16, FormatMap16} THEN 3
    ELSE IF b[1] \in {FormatArray32, FormatMap32} THEN 5 ELSE 1

Declared(b) ==
    IF b[1] \in {FormatArray16, FormatMap16} THEN <<0, b[2] * 256 + b[3]>>
    ELSE IF b[1] \in {FormatArray32, FormatMap32}
    THEN <<b[2] * 256 + b[3], b[4] * 256 + b[5]>>
    ELSE <<0, b[1] % 16>>

PerEntry(b) == IF isFixedMap(b[1]) \/ b[1] \in {FormatMap16, FormatMap32} THEN 2 ELSE 1

\* C24 (SpecDecode): when Skip on a container header declaring n entries
\* returns nil it has skipped n children for an array and 2n for a map,
\* whatever n the header carries: as every child has at least one byte, the
\* offset is then at least n, or 2n, bytes past the header.
C24_SkipsAllChildren ==
    (last.call.op = "Skip" /\ last.n = 1 /\ last.res.e = NoErr /\ IsContainer(buffer))
        => /\ Declared(buffer)[1] = 0
           /\ HeaderWidth(buffer) + PerEntry(buffer) * Declared(buffer)[2] <= byteOffset

\* C27 (SpecDecode): a ReadAny that succeeds on a complete array or map
\* has read every declared element, or every declared pair, key and value,
\* and no more: it ends at the first byte after the container, for the fix,
\* 16 and 32 forms alike, and returns a []any or a map[any]any.
C27_ReadAnyContainer ==
    (last.call.op = "ReadAny" /\ last.n = 1 /\ length > 0 /\ IsContainer(buffer)
         /\ last.res.e = NoErr)
        => /\ byteOffset = length
           /\ last.res.k = IF PerEntry(buffer) = 2 THEN "map[any]any" ELSE "[]any"

\* ReadAny has read the pair of a map 32 that is followed by one more byte
C27_Witness ==
    /\ last.call.op = "ReadAny"
    /\ last.n = 1
    /\ last.res.e = NoErr
    /\ buffer = <<FormatMap32, 0, 0, 0, 1, 161, 97, 5, FormatNil>>
    /\ byteOffset = 8

\* the bytes that follow a tag whose payload has a length fixed by the tag:
\* fixstr, float, typed integer and fixext, the type id of a fixext included
HasFixedPayload(t) ==
    \/ isFixedString(t)
    \/ t \in {FormatFloat32, FormatFloat64} \cup SignedTags \cup UnsignedTags
    \/ t \in {FormatFixExt1, FormatFixExt2, FormatFixExt4, FormatFixExt8, FormatFixExt16}

FixedPayload(t) ==
    IF isFixedString(t) THEN t % 32
    ELSE IF t \in {FormatUint8, FormatInt8} THEN 1
    ELSE IF t \in {FormatUint16, FormatInt16, FormatFixExt1} THEN 2
    ELSE IF t = FormatFixExt2 THEN 3
    ELSE IF t \in {FormatUint32, FormatInt32, FormatFloat32} THEN 4
    ELSE IF t = FormatFixExt4 THEN 5
    ELSE IF t \in {FormatUint64, FormatInt64, FormatFloat64} THEN 8
    ELSE IF t = FormatFixExt8 THEN 9
    ELSE 17

\* C29 (SpecDecode): whenever Skip returns nil the cursor has no latched
\* error, and after a tag with a payload of fixed length the offset is past
\* the whole payload, inside the buffer.
C29_SkipNilIsClean ==
    (last.call.op = "Skip" /\ last.res.e = NoErr)
        => /\ err = NoErr
           /\ (last.start < Len(buffer) /\ HasFixedPayload(buffer[last.start + 1]))
                  => byteOffset = last.start + 1 + FixedPayload(buffer[last.start + 1])

-----------------------------------------------------------------------------
(* SpecSkip: one Skip on a new Decoder, a step at a time.  calls is the    *)
(* stack of the Skip calls in progress, one numberOfObjectsToDiscard for   *)
(* each, the innermost last; last.n counts the getSize calls made.  The    *)
(* buffers are those of SpecDecode and two more whose str 32 length field  *)
(* reaches past the end of the buffer.                                     *)

\* the getSize calls followed before the run is cut off
MaxWork == 12

SkipBuffers ==
    WellFormed \cup Others
    \cup {<<146, FormatString32, 255, 255, 255, 250>>,
          <<FormatArray32, 255, 255, 255, 255, FormatString32, 255, 255, 255, 251>>}

NewDecoderToSkip ==
    /\ pc = "start"
    /\ \E b \in SkipBuffers : SetCursor(NewDecoder(b))
    /\ pc' = "skip"
    /\ last' = [last EXCEPT !.call = Call("Skip", <<>>)]
    /\ UNCHANGED <<length, calls>>

\* Skip is entered and calls getSize; an error returns through every caller
SkipGetSize ==
    /\ pc = "skip"
    /\ last.n < MaxWork
    /\ \E x \in {getSize(Cursor)} :
           /\ SetCursor(x.r)
           /\ calls' = IF x.e # NoErr THEN <<>> ELSE Append(calls, x.v)
           /\ pc' = IF x.e # NoErr THEN "done" ELSE "loop"
           /\ last' = [last EXCEPT !.n = @ + 1, !.res = [k |-> "error", v |-> <<>>, e |-> x.e]]
    /\ UNCHANGED <<buffer, length>>

\* the loop finds numberOfObjectsToDiscard > 0 and calls Skip
SkipChild ==
    /\ pc = "loop"
    /\ Gt32(calls[Len(calls)], U32(0))
    /\ pc' = "skip"
    /\ UNCHANGED <<buffer, byteOffset, err, length, calls, last>>

\* the loop finds numberOfObjectsToDiscard = 0: Skip returns nil, and the
\* caller, if there is one, decrements its own numberOfObjectsToDiscard
SkipReturn ==
    /\ pc = "loop"
    /\ ~Gt32(calls[Len(calls)], U32(0))
    /\ calls' = IF Len(calls) = 1 THEN <<>>
                ELSE [SubSeq(calls, 1, Len(calls) - 1)
                          EXCEPT ![Len(calls) - 1] = Dec32(@)]
    /\ pc' = IF Len(calls) = 1 THEN "done" ELSE "loop"
    /\ UNCHANGED <<buffer, byteOffset, err, length, last>>

NextSkip ==
    \/ NewDecoderToSkip
    \/ SkipGetSize
    \/ SkipChild
    \/ SkipReturn

SpecSkip == InitDecode /\ [][NextSkip]_vars

\* C22 (SpecSkip): the work of Skip is bounded by the buffer length: it
\* calls getSize at most once for each byte of the buffer and once more for
\* the call that finds the buffer at its end, and no more Skip calls are in
\* progress at any time than the buffer has bytes.
C22_WorkBounded ==
    /\ last.n <= Len(buffer) + 1
    /\ Len(calls) <= Len(buffer)

-----------------------------------------------------------------------------
(* SpecSizer: WriteAny and WriteTime calls on one Sizer, whose length is   *)
(* the variable length; last.slen is the length before the last call.      *)

Value(k, v) == <<k, v>>

Nil == Value("nil", <<>>)

\* instants around the limits of the three timestamp formats: the seconds
\* 0, 1, 2^32-1, 2^32, 2^34-1, 2^34, -1 and the least int64, and the
\* nanoseconds 0, 1, 2^29 and 999999999
Seconds ==
    {I64(0), I64(1), <<0, 0, 0, 0, 255, 255, 255, 255>>, <<0, 0, 0, 1, 0, 0, 0, 0>>,
     <<0, 0, 0, 3, 255, 255, 255, 255>>, <<0, 0, 0, 4, 0, 0, 0, 0>>, I64(-1),
     <<128, 0, 0, 0, 0, 0, 0, 0>>}

Nanoseconds == {I64(0), I64(1), I64(536870912), I64(999999999)}

Instants == {timeUnix(sec, nsec) : sec \in Seconds, nsec \in Nanoseconds}

\* values without elements, nil among them
Leaves ==
    {Nil, Value("bool", <<1>>), Value("int64", I64(5)), Value("int64", I64(300)),
     Value("string", <<97, 98>>), Value("[]byte", <<1, 2, 3>>),
     Value("time.Time", timeUnix(I64(1), I64(0)))}

\* slices of up to two values and maps of one pair, and those with a slice
\* or a map for their last value
Flat ==
    {Value("[]any", <<>>), Value("map[any]any", <<>>)}
    \cup {Value("[]any", <<x>>) : x \in Leaves}
    \cup {Value("[]any", <<x, y>>) : x, y \in Leaves}
    \cup {Value("map[any]any", <<key, x>>) :
              key \in {Value("string", <<97>>), Value("int64", I64(5))}, x \in Leaves}

AnyValues ==
    Leaves \cup Flat
    \cup {Value("[]any", <<Nil, x>>) : x \in Flat}
    \cup {Value("map[any]any", <<Value("string", <<97>>), x>>) : x \in Flat}

WriteAny ==
    /\ pc = "start"
    /\ last.n < MaxCalls
    /\ \E value \in AnyValues :
           /\ length' = SizerWriteAny(length, value)
           /\ last' = [call |-> Call("WriteAny", <<value>>), start |-> 0, slen |-> length,
                       n |-> last.n + 1, res |-> NoRes]
    /\ UNCHANGED <<buffer, byteOffset, err, pc, calls>>

WriteTime ==
    /\ pc = "start"
    /\ last.n < MaxCalls
    /\ \E value \in Instants :
           /\ length' = SizerWriteTime(length, value)
           /\ last' = [call |-> Call("WriteTime", <<value>>), start |-> 0, slen |-> length,
                       n |-> last.n + 1, res |-> NoRes]
    /\ UNCHANGED <<buffer, byteOffset, err, pc, calls>>

NextSizer ==
    \/ WriteAny
    \/ WriteTime

SpecSizer == InitDecode /\ [][NextSizer]_vars

\* the bytes of the encoding of a value with one byte for every nil in it:
\* a nil is 1, a slice or a map is its header and its elements, and a value
\* without elements is what the Sizer counts for it
RECURSIVE SizeOf(_), SizeOfAll(_)

SizeOfAll(values) ==
    IF values = <<>> THEN 0 ELSE SizeOf(Head(values)) + SizeOfAll(Tail(values))

SizeOf(value) ==
    CASE value[1] = "nil" -> 1
      [] value[1] = "[]any"
           -> SizerWriteArraySize(0, U32(Len(value[2]))) + SizeOfAll(value[2])
      [] value[1] = "map[any]any"
           -> SizerWriteMapSize(0, U32(Len(value[2]) \div 2)) + SizeOfAll(value[2])
      [] OTHER -> SizerWriteAny(0, value)

\* C25 (SpecSizer): Sizer.WriteAny counts exactly 1 byte for a nil, whether
\* the nil is the value itself, an element of a []any or a value of a map.
C25_NilIsOneByte ==
    last.call.op = "WriteAny" => Counted = SizeOf(last.call.arg[1])

\* C26 (SpecSizer): Sizer.WriteTime adds 6 bytes when the seconds are in
\* [0, 2^32) and the nanoseconds are zero, 10 bytes for every other instant
\* with the seconds in [0, 2^34), and 15 bytes otherwise.
C26_WriteTimeCounts ==
    last.call.op = "WriteTime"
        => LET sec == Unix(last.call.arg[1])
               nsec == Nanosecond(last.call.arg[1])
           IN  Counted = IF ULt(sec, <<0, 0, 0, 1, 0, 0, 0, 0>>) /\ nsec = I64(0) THEN 6
                         ELSE IF ULt(sec, <<0, 0, 0, 4, 0, 0, 0, 0>>) THEN 10
                         ELSE 15

\* each of the three sizes has been counted, the 15 bytes for negative
\* seconds and for seconds of 2^34
C26_Witness ==
    /\ last.call.op = "WriteTime"
    /\ last.n = 2
    /\ Counted = 15
    /\ Unix(last.call.arg[1]) = <<0, 0, 0, 4, 0, 0, 0, 0>>
    /\ last.slen = 10

-----------------------------------------------------------------------------
(* SpecEncoder: Encoder writes into a buffer of a few bytes, over the      *)
(* DataReader that stores no error.  pc is "failed" from the first write   *)
(* whose bytes did not all fit.                                            *)

\* the longest buffer and the writes made into one buffer
MaxSpace == 4

MaxWrites == 3

EncoderCalls ==
    {Call("WriteNil", <<>>)}
    \cup {Call("WriteBool", <<b>>) : b \in {0, 1}}
    \cup {Call("WriteInt64", v) :
              v \in {I64(5), I64(-1), I64(-100), I64(300), I64(70000),
                     <<0, 0, 1, 0, 0, 0, 0, 0>>}}

WriteNoLatch(r, c) ==
    CASE c.op = "WriteNil" -> WriteNilNoLatch(r)
      [] c.op = "WriteBool" -> WriteBoolNoLatch(r, c.arg[1] = 1)
      [] c.op = "WriteInt64" -> WriteInt64NoLatch(r, c.arg)

NewEncoderOnBuffer ==
    /\ pc = "start"
    /\ \E n \in 0..MaxSpace : SetCursor(NewEncoder(Rep(n, 0)))
    /\ pc' = "write"
    /\ UNCHANGED <<length, calls, last>>

EncoderWrite ==
    /\ pc \in {"write", "failed"}
    /\ last.n < MaxWrites
    /\ \E c \in EncoderCalls :
           /\ SetCursor(WriteNoLatch(Cursor, c))
           /\ pc' = IF SizerCall(NewSizer, c) > Len(buffer) - byteOffset THEN "failed" ELSE pc
           /\ last' = [call |-> c, start |-> byteOffset, slen |-> 0, n |-> last.n + 1,
                       res |-> NoRes]
    /\ UNCHANGED <<length, calls>>

NextEncoder ==
    \/ NewEncoderOnBuffer
    \/ EncoderWrite

SpecEncoder == InitDecode /\ [][NextEncoder]_vars

\* C28 (SpecEncoder): after an Encoder write has failed for lack of buffer
\* space, no later Encoder write changes a byte of the buffer or the offset.
C28_NoWriteAfterFailure ==
    [][pc = "failed" => (buffer' = buffer /\ byteOffset' = byteOffset)]_vars

-----------------------------------------------------------------------------
(* SpecConvert: one ReadNillable call on a new Decoder and then one        *)
(* convert helper on the pointer and the error it returned.  calls holds   *)
(* the helper call: its name, the pointer and error passed, the result.    *)

NillableCalls ==
    {Call(op, <<>>) : op \in {"ReadNillableString", "ReadNillableBool", "ReadNillableInt64"}}

\* the helpers that take the pointer type the read returns; the argument is
\* the verdict of the parser for NillableParse and StringToTimePtr and the
\* width of T for NillableNumeric
HelpersFor(op) ==
    {Call("NillableParse", <<b>>) : b \in {0, 1}}
    \cup IF op = "ReadNillableString"
         THEN {Call("NillableString", <<>>)}
              \cup {Call("StringToTimePtr", <<b>>) : b \in {0, 1}}
         ELSE IF op = "ReadNillableBool" THEN {Call("NillableBool", <<>>)}
         ELSE {Call("NillableNumeric", <<w>>) : w \in {4, 8}}

\* a parser that accepts, or refuses, every input
parser(ok, x) == IF ok THEN [v |-> x, e |-> NoErr] ELSE [v |-> <<>>, e |-> <<"parse error">>]

HelperCall(h, value, e) ==
    CASE h.op = "NillableParse" -> NillableParse(LAMBDA x : parser(h.arg[1] = 1, x), value, e)
      [] h.op = "StringToTimePtr" -> StringToTimePtr(value, e, h.arg[1] = 1)
      [] h.op = "NillableString" -> NillableString(value, e)
      [] h.op = "NillableBool" -> NillableBool(value, e)
      [] h.op = "NillableNumeric" -> NillableNumeric(h.arg[1], value, e)

\* the pointer a ReadNillable call returned
Pointer(res) == IF res.k = "nil" THEN <<>> ELSE <<res.v>>

NewDecoderOnScalar ==
    /\ pc = "start"
    /\ \E b \in Scalars \cup Others \cup {<<180>> \o Rep(20, 48)} : SetCursor(NewDecoder(b))
    /\ pc' = "read"
    /\ UNCHANGED <<length, calls, last>>

ReadNillable ==
    /\ pc = "read"
    /\ \E c \in NillableCalls :
           \E x \in {DecoderCall(Cursor, c)} :
               /\ SetCursor(x.r)
               /\ last' = [call |-> c, start |-> byteOffset, slen |-> 0, n |-> 1,
                           res |-> [k |-> x.k, v |-> x.v, e |-> x.e]]
               /\ pc' = IF x.e = Panic THEN "panic" ELSE "convert"
    /\ UNCHANGED <<length, calls>>

Convert ==
    /\ pc = "convert"
    /\ \E h \in HelpersFor(last.call.op) :
           \E out \in {HelperCall(h, Pointer(last.res), last.res.e)} :
               /\ calls' = <<[op |-> h.op, value |-> Pointer(last.res), e |-> last.res.e,
                             out |-> out]>>
               /\ pc' = IF out.e = Panic THEN "panic" ELSE "done"
    /\ UNCHANGED <<buffer, byteOffset, err, length, last>>

NextConvert ==
    \/ NewDecoderOnScalar
    \/ ReadNillable
    \/ Convert

SpecConvert == InitDecode /\ [][NextConvert]_vars

\* C30 (SpecConvert): NillableString, NillableBool and NillableNumeric,
\* like NillableParse and StringToTimePtr, return a nil pointer and a nil
\* error, and do not panic, on the nil pointer and nil error that a
\* ReadNillable read returns for a MessagePack nil.
C30_NilPassesThrough ==
    (calls # <<>> /\ calls[1].value = <<>> /\ calls[1].e = NoErr)
        => (calls[1].out.v = <<>> /\ calls[1].out.e = NoErr)

====
